---- MODULE Spec2Model ----
(***************************************************************************)
(* A model of the ue4pak codec core: the byte archives, the primitive      *)
(* codecs, the trailer (PakInfo), the entry codecs, the V1 and V2 indexes, *)
(* the reader (PakFile) and the builder (PakFileBuilder / AssetWriter).    *)
(*                                                                         *)
(* Bytes are integers 0..255, strings and buffers are sequences of bytes.  *)
(* Every codec is the single ser_de routine of the source, run against an  *)
(* archive whose kind ("reader", "writer", "len") selects the direction.   *)
(***************************************************************************)
EXTENDS Integers, Sequences, FiniteSets, TLC

VARIABLES pc, version, info, entry, index, pos, key, writer, sha1_ar, next, file, res, orig

vars == <<pc, version, info, entry, index, pos, key, writer, sha1_ar, next, file, res, orig>>

\* the fields and the open AssetWriter of a PakFileBuilder
builderVars == <<pos, key, writer>>

\* the locals of PakFile::_load_index
loaderVars == <<sha1_ar, next>>

(***************************************************************************)
(* PakVersion: the derived Ord is the declaration order.                   *)
(***************************************************************************)
Initial == 1
NoTimestamps == 2
CompressionEncryption == 3
IndexEncryption == 4
RelativeChunkOffsets == 5
DeleteRecords == 6
EncryptionKeyGuid == 7
FNameBasedCompressionMethod422 == 8
FNameBasedCompressionMethod == 9
FrozenIndex == 10
PathHashIndex == 11
Fnv64BugFix == 12

\* PakVersion::list()
list == <<Initial, NoTimestamps, CompressionEncryption, IndexEncryption,
          RelativeChunkOffsets, DeleteRecords, EncryptionKeyGuid,
          FNameBasedCompressionMethod422, FNameBasedCompressionMethod,
          FrozenIndex, PathHashIndex, Fnv64BugFix>>

\* mutant of raw: every version with a number of its own
raw_ordinal(v) == v

\* PakVersion::raw
raw(v) == IF v <= FNameBasedCompressionMethod422 THEN v ELSE v - 1

PAK_FILE_MAGIC == 1517228769
COMPRESSION_METHOD_NAME_LEN == 32
MAX_NUM_COMPRESSION_METHODS == 5
HASH_LEN == 20
FLAG_ENCRYPTED == 1
FLAG_DELETED == 2
AES_BLOCK_SIZE == 16

\* The largest integer the model computes with; a decoded integer that does
\* not fit is read as Huge (it is only ever compared and bounds-checked).
Huge == 65536 * 32767 + 65535

(***************************************************************************)
(* Little-endian integers (the doit! macro: to_le_bytes / from_le_bytes).  *)
(***************************************************************************)
RECURSIVE Shr8(_, _)
Shr8(n, k) == IF k = 0 THEN n ELSE Shr8(n \div 256, k - 1)

\* to_le_bytes of a value in -2^31 < n < 2^31, sign-extended to w bytes
ToLe(n, w) ==
    IF n >= 0
    THEN [i \in 1..w |-> IF i <= 4 THEN (Shr8(n, i - 1) % 256) ELSE 0]
    ELSE LET m == n + 1 + Huge
         IN [i \in 1..w |-> IF i < 4 THEN (Shr8(m, i - 1) % 256)
                            ELSE IF i = 4 THEN 128 + (Shr8(m, 3) % 256)
                            ELSE 255]

\* from_le_bytes of an unsigned integer
FromLe(bs) ==
    IF \E i \in 1..Len(bs) : (i > 4 /\ bs[i] # 0) \/ (i = 4 /\ bs[i] >= 128)
    THEN Huge
    ELSE LET b(i) == IF i <= Len(bs) THEN bs[i] ELSE 0
         IN b(1) + 256 * b(2) + 65536 * b(3) + 16777216 * b(4)

\* from_le_bytes of an i64: exact for 0 <= n < 2^31 and for -1; every other
\* negative value is read as -2, every other positive one as Huge
FromLeI64(bs) ==
    IF bs[8] >= 128
    THEN IF \A i \in 1..8 : bs[i] = 255 THEN -1 ELSE -2
    ELSE FromLe(bs)

(***************************************************************************)
(* sha1: Sha1::update / finalize.  SHA-1 is abstracted by a 20-byte digest *)
(* that depends on the length and on every byte: two inputs of one length  *)
(* that differ in a single byte have different digests.                    *)
(***************************************************************************)
\* the part of digest byte k that comes from bs[i], bs[i + HASH_LEN], ...
RECURSIVE Sha1Fold(_, _, _)
Sha1Fold(bs, i, w) ==
    IF i > Len(bs) THEN 0
    ELSE ((bs[i] + 1) * w + Sha1Fold(bs, i + HASH_LEN, w + 2)) % 256

Sha1(bs) == [k \in 1..HASH_LEN |-> (7 * k + 3 * Len(bs) + 1 + Sha1Fold(bs, k, 1)) % 256]

Zeros(n) == [i \in 1..n |-> 0]

\* F(e), with e evaluated once
Let(e, F(_)) == CHOOSE y \in {F(x) : x \in {e}} : TRUE

(***************************************************************************)
(* Archives.  kind "reader": bytes is the source and at the read cursor;   *)
(* kind "writer": bytes is what was written; kind "len": ArchiveLen, which *)
(* only counts.  tee holds the bytes an ArchiveLenSha1 wrapper has seen    *)
(* since its last len_sha1.                                                *)
(***************************************************************************)
ArchiveReader(bs, at) == [kind |-> "reader", bytes |-> bs, at |-> at, len |-> 0, tee |-> <<>>]
ArchiveWriter(bs) == [kind |-> "writer", bytes |-> bs, at |-> 0, len |-> 0, tee |-> <<>>]
ArchiveLen == [kind |-> "len", bytes |-> <<>>, at |-> 0, len |-> 0, tee |-> <<>>]

\* a codec step: the status so far, the archive, and the value last (de)coded
Ok(ar) == [st |-> "ok", ar |-> ar, v |-> 0]

is_reader(ar) == ar.kind = "reader"

read_exact(s, n) ==
    IF s.st # "ok" THEN s
    ELSE IF s.ar.kind # "reader" THEN [s EXCEPT !.st = "PermissionDenied"]
    ELSE IF n > 0 /\ (n = Huge \/ s.ar.at >= Len(s.ar.bytes) \/ n > Len(s.ar.bytes) - s.ar.at)
    THEN [s EXCEPT !.st = "UnexpectedEof"]
    ELSE Let(SubSeq(s.ar.bytes, s.ar.at + 1, s.ar.at + n), LAMBDA got :
             [st |-> "ok",
              ar |-> [s.ar EXCEPT !.at = @ + n, !.tee = @ \o got],
              v |-> got])

\* ArchiveLen::write_all: the count after buf
counted_calls(len, buf) == len + 1

counted(len, buf) == len + Len(buf)

write_all(s, bs) ==
    IF s.st # "ok" THEN s
    ELSE IF s.ar.kind = "reader" THEN [s EXCEPT !.st = "PermissionDenied"]
    ELSE IF s.ar.kind = "len" THEN [s EXCEPT !.ar.len = counted(@, bs), !.v = bs]
    ELSE [st |-> "ok",
          ar |-> [s.ar EXCEPT !.bytes = @ \o bs, !.tee = @ \o bs],
          v |-> bs]

\* impl Archivable for [u8]
SerDeBytes(s, bs) ==
    IF s.st # "ok" THEN s
    ELSE IF is_reader(s.ar) THEN read_exact(s, Len(bs)) ELSE write_all(s, bs)

\* doit!: an unsigned integer of w bytes
SerDeInt(s, n, w) ==
    IF s.st # "ok" THEN s
    ELSE IF is_reader(s.ar)
         THEN Let(read_exact(s, w), LAMBDA r :
                  IF r.st = "ok" THEN [r EXCEPT !.v = FromLe(r.v)] ELSE r)
         ELSE [write_all(s, ToLe(n, w)) EXCEPT !.v = n]

\* doit!(i64)
SerDeI64(s, n) ==
    IF s.st # "ok" THEN s
    ELSE IF is_reader(s.ar)
         THEN Let(read_exact(s, 8), LAMBDA r :
                  IF r.st = "ok" THEN [r EXCEPT !.v = FromLeI64(r.v)] ELSE r)
         ELSE [write_all(s, ToLe(n, 8)) EXCEPT !.v = n]

\* mutant of SerDeBool: the flag written as a single byte
SerDeBoolU8(s, b) ==
    IF s.st # "ok" THEN s
    ELSE IF is_reader(s.ar)
         THEN Let(SerDeInt(s, 0, 1), LAMBDA r :
                  IF r.st = "ok" THEN [r EXCEPT !.v = (r.v # 0)] ELSE r)
         ELSE [SerDeInt(s, IF b THEN 1 ELSE 0, 1) EXCEPT !.v = b]

\* impl Archivable for bool: a u32, nonzero is true
SerDeBool(s, b) ==
    IF s.st # "ok" THEN s
    ELSE IF is_reader(s.ar)
         THEN Let(SerDeInt(s, 0, 4), LAMBDA r :
                  IF r.st = "ok" THEN [r EXCEPT !.v = (r.v # 0)] ELSE r)
         ELSE [SerDeInt(s, IF b THEN 1 ELSE 0, 4) EXCEPT !.v = b]

\* impl Archivable for [u32]: each item in turn (used for the 4-word guid)
RECURSIVE SerDeU32s(_, _, _, _)
SerDeU32s(s, xs, i, acc) ==
    IF s.st # "ok" THEN s
    ELSE IF i > Len(xs) THEN [s EXCEPT !.v = acc]
    ELSE Let(SerDeInt(s, xs[i], 4), LAMBDA r :
             SerDeU32s(r, xs, i + 1, Append(acc, r.v)))

\* std::str::from_utf8 (lead and continuation bytes)
RECURSIVE Utf8From(_, _)
Utf8From(bs, i) ==
    IF i > Len(bs) THEN TRUE
    ELSE LET b == bs[i]
             n == IF b < 128 THEN 0
                  ELSE IF b >= 194 /\ b <= 223 THEN 1
                  ELSE IF b >= 224 /\ b <= 239 THEN 2
                  ELSE IF b >= 240 /\ b <= 244 THEN 3
                  ELSE -1
         IN /\ n >= 0
            /\ i + n <= Len(bs)
            /\ \A j \in (i + 1)..(i + n) : bs[j] >= 128 /\ bs[j] <= 191
            /\ Utf8From(bs, i + n + 1)

from_utf8_ok(bs) == Utf8From(bs, 1)

\* str::trim_end_matches('\0')
RECURSIVE trim_end_nul(_)
trim_end_nul(bs) ==
    IF Len(bs) > 0 /\ bs[Len(bs)] = 0 THEN trim_end_nul(SubSeq(bs, 1, Len(bs) - 1)) ELSE bs

(***************************************************************************)
(* PakInfo, the trailer.                                                   *)
(***************************************************************************)
Zlib == <<90, 108, 105, 98>>
Gzip == <<71, 122, 105, 112>>
Oodle == <<79, 111, 100, 108, 101>>

\* PakInfo::default
PakInfoDefault ==
    [magic |-> PAK_FILE_MAGIC, version |-> Initial, index_offset |-> 0, index_size |-> 0,
     hash |-> Zeros(HASH_LEN), encrypted_index |-> FALSE, index_is_frozen |-> FALSE,
     encryption_key_guid |-> <<0, 0, 0, 0>>, compression_methods |-> << <<>> >>]

\* PakInfo::new
PakInfoNew(v) == [PakInfoDefault EXCEPT !.version = v]

\* the write loop of PakInfo::ser_de over compression_methods[1..]:
\* buffer[pos..].copy_from_slice(name) panics unless the name is exactly as
\* long as the rest of the buffer
RECURSIVE CopyMethods(_, _, _)
CopyMethods(buffer, methods, i) ==
    IF i + 1 > Len(methods) THEN [panic |-> FALSE, buffer |-> buffer]
    ELSE LET at == (i - 1) * COMPRESSION_METHOD_NAME_LEN
             name == methods[i + 1]
         IN IF at > Len(buffer) \/ Len(name) # Len(buffer) - at
            THEN [panic |-> TRUE, buffer |-> buffer]
            ELSE CopyMethods([k \in 1..Len(buffer) |->
                                 IF k > at THEN name[k - at] ELSE buffer[k]],
                             methods, i + 1)

\* the read loop of PakInfo::ser_de: one name per 32-byte slot
RECURSIVE SplitMethods(_, _, _)
SplitMethods(buffer, i, acc) ==
    IF i >= Len(buffer) THEN [ok |-> TRUE, names |-> acc]
    ELSE LET cstr == SubSeq(buffer, i + 1, i + COMPRESSION_METHOD_NAME_LEN)
         IN IF ~from_utf8_ok(cstr) THEN [ok |-> FALSE, names |-> acc]
            ELSE SplitMethods(buffer, i + COMPRESSION_METHOD_NAME_LEN,
                              Append(acc, trim_end_nul(cstr)))

\* the length of the fixed-width methods buffer at a version
MethodsBufferLen(v) ==
    IF v = FNameBasedCompressionMethod422
    THEN COMPRESSION_METHOD_NAME_LEN * MAX_NUM_COMPRESSION_METHODS - COMPRESSION_METHOD_NAME_LEN
    ELSE COMPRESSION_METHOD_NAME_LEN * MAX_NUM_COMPRESSION_METHODS

\* impl Archivable for PakInfo: ser_de
InfoSerDe(self, ar) ==
    LET v == self.version
        rd == is_reader(ar)
        fail(st) == [st |-> st, self |-> self, ar |-> ar]
    IN
    Let(IF v >= EncryptionKeyGuid
        THEN SerDeU32s(Ok(ar), self.encryption_key_guid, 1, <<>>)
        ELSE [Ok(ar) EXCEPT !.v = self.encryption_key_guid], LAMBDA s1 :
    Let(SerDeBool(s1, self.encrypted_index), LAMBDA s2 :
    Let(SerDeInt(s2, self.magic, 4), LAMBDA s3 :
    IF s3.st # "ok" THEN fail(s3.st)
    ELSE IF s3.v # PAK_FILE_MAGIC THEN fail("InvalidInput")
    ELSE
    Let(SerDeInt(s3, raw(v), 4), LAMBDA s4 :
    IF s4.st # "ok" THEN fail(s4.st)
    ELSE IF s4.v # raw(v) THEN fail("InvalidInput")
    ELSE
    Let(SerDeInt(s4, self.index_offset, 8), LAMBDA s5 :
    Let(SerDeInt(s5, self.index_size, 8), LAMBDA s6 :
    Let(SerDeBytes(s6, self.hash), LAMBDA s7 :
    Let(IF v >= FrozenIndex
        THEN SerDeBool(s7, self.index_is_frozen)
        ELSE [s7 EXCEPT !.v = self.index_is_frozen], LAMBDA s8 :
    LET loaded == [self EXCEPT
                     !.encryption_key_guid =
                         IF rd /\ v < EncryptionKeyGuid THEN <<0, 0, 0, 0>> ELSE s1.v,
                     !.encrypted_index =
                         IF rd /\ v < IndexEncryption THEN FALSE ELSE s2.v,
                     !.magic = s3.v,
                     !.index_offset = s5.v,
                     !.index_size = s6.v,
                     !.hash = s7.v,
                     !.index_is_frozen = s8.v]
    IN
    IF s8.st # "ok" THEN fail(s8.st)
    ELSE IF v < FNameBasedCompressionMethod422
    THEN [st |-> "ok",
          self |-> [loaded EXCEPT !.compression_methods = @ \o <<Zlib, Gzip, Oodle>>],
          ar |-> s8.ar]
    ELSE IF rd
    THEN Let(read_exact(s8, MethodsBufferLen(v)), LAMBDA s9 :
         IF s9.st # "ok" THEN fail(s9.st)
         ELSE Let(SplitMethods(s9.v, 0, <<>>), LAMBDA names :
              IF ~names.ok THEN fail("Other")
              ELSE [st |-> "ok",
                    self |-> [loaded EXCEPT !.compression_methods = @ \o names.names],
                    ar |-> s9.ar]))
    ELSE IF Len(self.compression_methods) = 0 THEN fail("panic")
    ELSE Let(CopyMethods(Zeros(MethodsBufferLen(v)), self.compression_methods, 1), LAMBDA c :
         IF c.panic THEN fail("panic")
         ELSE Let(write_all(s8, c.buffer), LAMBDA s9 :
              IF s9.st # "ok" THEN fail(s9.st)
              ELSE [st |-> "ok", self |-> loaded, ar |-> s9.ar]))))))))))

\* Archivable::ser_de_len for PakInfo: ser_de into an ArchiveLen, unwrapped
InfoSerDeLen(self) ==
    Let(InfoSerDe(self, ArchiveLen), LAMBDA r :
        IF r.st = "ok" THEN [st |-> "ok", self |-> r.self, len |-> r.ar.len]
        ELSE [st |-> "panic", self |-> self, len |-> 0])

(***************************************************************************)
(* Trailer scenarios.  A trailer on disk is what ser_de reads: the fields  *)
(* in order, then (version >= 8) the fixed-width table of NUL-padded       *)
(* names.  TrailerOnDisk writes the fixed fields with the source's own     *)
(* writer and fills the name slots.                                        *)
(***************************************************************************)
MaxNames == 2

MethodNames == <<Zlib, Oodle, Gzip, Zlib, Oodle>>

\* the magic and the raw version 8 as they lie in a trailer
MagicAndRaw8 == ToLe(PAK_FILE_MAGIC, 4) \o ToLe(8, 4)

\* an index hash whose bytes 8..15 read as a magic and a raw version 8
AdvHash == [k \in 1..HASH_LEN |-> IF k >= 9 /\ k <= 16 THEN MagicAndRaw8[k - 8] ELSE 65]

\* the field values of the trailers the scenarios start from
InfoCases ==
    LET base == [index_offset |-> 3, index_size |-> 9, hash |-> Sha1(<<1, 2, 3>>),
                 encrypted_index |-> FALSE, index_is_frozen |-> FALSE,
                 encryption_key_guid |-> <<1, 2, 3, 4>>, names |-> <<>>]
    IN {base,
        [base EXCEPT !.encrypted_index = TRUE],
        [base EXCEPT !.index_is_frozen = TRUE],
        [base EXCEPT !.hash = AdvHash]}
       \cup {[base EXCEPT !.names = SubSeq(MethodNames, 1, n)] : n \in 1..MaxNames}

\* the bytes that precede the trailer in the file: none, the tail of an index,
\* or bytes that read as a magic and a raw version 8 twelve bytes before the
\* trailer
Prefixes ==
    {<<>>,
     [k \in 1..40 |-> k],
     [k \in 1..33 |-> IF k >= 22 /\ k <= 29 THEN MagicAndRaw8[k - 21] ELSE 66]}

InfoOf(c, v) ==
    [magic |-> PAK_FILE_MAGIC, version |-> v, index_offset |-> c.index_offset,
     index_size |-> c.index_size, hash |-> c.hash, encrypted_index |-> c.encrypted_index,
     index_is_frozen |-> c.index_is_frozen, encryption_key_guid |-> c.encryption_key_guid,
     compression_methods |-> << <<>> >> \o c.names]

TrailerOnDisk(c, v) ==
    Let(InfoSerDe([InfoOf(c, v) EXCEPT !.compression_methods = << <<>> >>],
                  ArchiveWriter(<<>>)).ar.bytes, LAMBDA fixed :
        LET first == Len(fixed) - MethodsBufferLen(v)
            slot(k) == ((k - first - 1) \div COMPRESSION_METHOD_NAME_LEN) + 1
            col(k) == ((k - first - 1) % COMPRESSION_METHOD_NAME_LEN) + 1
        IN IF v < FNameBasedCompressionMethod422 THEN fixed
           ELSE [k \in 1..Len(fixed) |->
                    IF k > first /\ slot(k) <= Len(c.names) /\ col(k) <= Len(c.names[slot(k)])
                    THEN c.names[slot(k)][col(k)]
                    ELSE fixed[k]])

\* the trailer length the probe computes for a version
InfoLenOf(v) == InfoSerDeLen(PakInfoNew(v)).len

NoEntry == [offset |-> 0]
NoWriter == [open |-> FALSE]
NoRes == [op |-> "none", st |-> "ok"]
NoNext == [size |-> 0, hash |-> Zeros(HASH_LEN), ctx |-> ""]

InitInfo ==
    /\ pc = "start"
    /\ version \in 1..Len(list)
    /\ \E c \in InfoCases, pre \in Prefixes, mode \in {"decode", "encode"} :
          /\ orig = [mode |-> mode, value |-> InfoOf(c, version),
                     trailer |-> TrailerOnDisk(c, version)]
          /\ file = IF mode = "decode" THEN pre \o TrailerOnDisk(c, version) ELSE <<>>
          /\ info = IF mode = "decode" THEN PakInfoNew(version) ELSE InfoOf(c, version)
    /\ entry = NoEntry
    /\ index = <<>>
    /\ pos = 0
    /\ key = FALSE
    /\ writer = NoWriter
    /\ sha1_ar = ArchiveLen
    /\ next = NoNext
    /\ res = NoRes

\* info.ser_de_len()
InfoLen ==
    /\ pc = "start"
    /\ \E r \in {InfoSerDeLen(info)} :
          /\ info' = r.self
          /\ res' = [op |-> "len", st |-> r.st, len |-> r.len]
    /\ pc' = "len"
    /\ UNCHANGED <<version, entry, index, builderVars, loaderVars, file, orig>>

\* info.ser_de(reader) on the last InfoLenOf(v) bytes of the file, as the test's
\* read() does and, after ser_de_len, the probe
InfoDecode ==
    /\ pc \in {"start", "len"}
    /\ orig.mode = "decode"
    /\ res.st = "ok"
    /\ \E r \in {InfoSerDe(info, ArchiveReader(file, Len(file) - InfoLenOf(version)))} :
          /\ info' = r.self
          /\ res' = [op |-> "decode", st |-> r.st, at |-> r.ar.at]
    /\ pc' = "decoded"
    /\ UNCHANGED <<version, entry, index, builderVars, loaderVars, file, orig>>

\* info.ser_de(writer): of the value built by the caller, or of a decoded one
InfoEncode ==
    /\ \/ pc \in {"start", "len"} /\ orig.mode = "encode"
       \/ pc = "decoded"
    /\ res.st = "ok"
    /\ \E r \in {InfoSerDe(info, ArchiveWriter(<<>>))} :
          /\ info' = r.self
          /\ file' = r.ar.bytes
          /\ res' = [op |-> "encode", st |-> r.st, from |-> pc]
    /\ pc' = "encoded"
    /\ UNCHANGED <<version, entry, index, builderVars, loaderVars, orig>>

\* PakInfo::new(version).ser_de(reader) over the bytes just written
InfoDecodeBack ==
    /\ pc = "encoded"
    /\ orig.mode = "encode"
    /\ res.st = "ok"
    /\ \E r \in {InfoSerDe(PakInfoNew(version), ArchiveReader(file, 0))} :
          /\ info' = r.self
          /\ res' = [op |-> "decodeback", st |-> r.st, at |-> r.ar.at]
    /\ pc' = "redecoded"
    /\ UNCHANGED <<version, entry, index, builderVars, loaderVars, file, orig>>

\* the other raw-8 version, which the probe also tries on this file
OtherRaw8(v) ==
    IF v = FNameBasedCompressionMethod422 THEN FNameBasedCompressionMethod
    ELSE FNameBasedCompressionMethod422

\* one probe attempt of de_pakinfo_versions at the other raw-8 version
InfoCross ==
    /\ pc = "start"
    /\ orig.mode = "decode"
    /\ version \in {FNameBasedCompressionMethod422, FNameBasedCompressionMethod}
    /\ \E o \in {OtherRaw8(version)} :
       \E info_len \in {InfoLenOf(o)} :
          /\ info_len < Len(file)
          /\ \E r \in {InfoSerDe(PakInfoNew(o), ArchiveReader(file, Len(file) - info_len))} :
                /\ info' = r.self
                /\ res' = [op |-> "cross", st |-> r.st, at |-> Len(file) - info_len]
    /\ pc' = "crossed"
    /\ UNCHANGED <<version, entry, index, builderVars, loaderVars, file, orig>>

NextInfo == InfoLen \/ InfoDecode \/ InfoEncode \/ InfoDecodeBack \/ InfoCross

SpecInfo == InitInfo /\ [][NextInfo]_vars

(***************************************************************************)
(* Claims about the trailer.                                               *)
(***************************************************************************)

\* the trailer lengths as the specification lists them
StatedTrailerLen(v) ==
    IF v < EncryptionKeyGuid THEN 53
    ELSE IF v = EncryptionKeyGuid THEN 69
    ELSE IF v = FNameBasedCompressionMethod422 THEN 197
    ELSE IF v = FNameBasedCompressionMethod THEN 229
    ELSE 230

\* the trailer lengths with both flags written as four bytes
CodedTrailerLen(v) ==
    IF v < EncryptionKeyGuid THEN 48
    ELSE IF v = EncryptionKeyGuid THEN 64
    ELSE IF v = FNameBasedCompressionMethod422 THEN 192
    ELSE IF v = FNameBasedCompressionMethod THEN 224
    ELSE 228

C6_TrailerRoundTrip ==
    /\ res.op = "encode" /\ res.from = "decoded" => res.st = "ok" /\ file = orig.trailer
    /\ res.op = "encode" /\ res.from # "decoded" => res.st = "ok"
    /\ res.op = "decodeback" => res.st = "ok" /\ info = orig.value

\* the eight bytes where a trailer layout read at byte offset at keeps its magic
\* and version number
MagicWindow(at) ==
    IF at + 20 + Len(MagicAndRaw8) <= Len(file)
    THEN SubSeq(file, at + 21, at + 20 + Len(MagicAndRaw8))
    ELSE <<>>

\* C5 as stated: a file ending in a valid trailer of one of the two raw-8
\* versions parses at that version and fails with InvalidInput at the other.
C5_CrossParseInvalidInput ==
    /\ res.op = "decode" /\ raw(version) = 8 => res.st = "ok"
    /\ res.op = "cross" => res.st = "InvalidInput"

\* C5 amended: such a file parses at its own version, and the parse at the other
\* raw-8 version, when the file is longer than that version's trailer, fails
\* with InvalidInput exactly when the eight bytes at offset 20 of that version's
\* window are not the magic followed by the number 8.
C5_CrossParse ==
    /\ res.op = "decode" /\ raw(version) = 8 => res.st = "ok"
    /\ res.op = "cross" => (res.st = "InvalidInput" <=> MagicWindow(res.at) # MagicAndRaw8)

C5_Witness ==
    /\ res.op = "cross"
    /\ version = FNameBasedCompressionMethod422
    /\ MagicWindow(res.at) = MagicAndRaw8
    /\ res.st # "InvalidInput"

(***************************************************************************)
(* PakEntry, the full form.  Values of Huge or more stand for the integers *)
(* that do not fit the model's arithmetic; sums saturate at Huge.          *)
(***************************************************************************)
Add(a, b) == IF a >= Huge - b THEN Huge ELSE a + b

\* impl Default for PakEntry
PakEntryDefault ==
    [offset |-> 0, size |-> 0, uncompressed_size |-> 0, hash |-> Zeros(HASH_LEN),
     compression_blocks |-> <<>>, compression_block_size |-> 0,
     compression_method_index |-> 0, flags |-> 0]

\* PakEntry::is_encrypted
is_encrypted(e) == (e.flags \div FLAG_ENCRYPTED) % 2 = 1

\* PakEntry::is_deleted
is_deleted(e) == (e.flags \div FLAG_DELETED) % 2 = 1

\* impl Archivable for PakCompressedBlock
BlockSerDe(s, b) ==
    Let(SerDeI64(s, b.compressed_start), LAMBDA s1 :
    Let(SerDeI64(s1, b.compressed_end), LAMBDA s2 :
        IF s2.st # "ok" THEN s2
        ELSE [s2 EXCEPT !.v = [compressed_start |-> s1.v, compressed_end |-> s2.v]]))

\* the item loop of impl Archivable for Vec<T>, T = PakCompressedBlock
RECURSIVE BlocksFrom(_, _, _, _, _)
BlocksFrom(s, blocks, n, i, acc) ==
    IF s.st # "ok" THEN s
    ELSE IF i > n THEN [s EXCEPT !.v = acc]
    ELSE Let(BlockSerDe(s, IF i <= Len(blocks) THEN blocks[i]
                           ELSE [compressed_start |-> 0, compressed_end |-> 0]), LAMBDA r :
             BlocksFrom(r, blocks, n, i + 1, Append(acc, r.v)))

\* impl Archivable for Vec<T>, T = PakCompressedBlock: a u32 count, then the
\* items; a count the archive cannot hold ends in UnexpectedEof
SerDeBlocks(s, blocks) ==
    Let(SerDeInt(s, Len(blocks), 4), LAMBDA s1 :
        IF s1.st # "ok" THEN s1
        ELSE IF is_reader(s1.ar) /\ s1.v > Len(s1.ar.bytes)
        THEN [s1 EXCEPT !.st = "UnexpectedEof"]
        ELSE BlocksFrom(s1, blocks, s1.v, 1, <<>>))

\* the match on legacy_compression_method in PakEntry::ser_de, on the four
\* bytes of the i32: -1 where no arm matches
LegacyMethodIndex(bs) ==
    IF \A i \in 1..Len(bs) : bs[i] = 0 THEN 0
    ELSE IF bs[1] % 2 = 1 THEN 1
    ELSE IF (bs[1] \div 2) % 2 = 1 THEN 2
    ELSE IF (bs[1] \div 4) % 2 = 1 THEN 3
    ELSE -1

\* PakEntry::ser_de
EntrySerDe(self, ar, v) ==
    LET fail(st) == [st |-> st, self |-> self, ar |-> ar]
    IN
    Let(SerDeInt(Ok(ar), self.offset, 8), LAMBDA s1 :
    Let(SerDeInt(s1, self.size, 8), LAMBDA s2 :
    Let(SerDeInt(s2, self.uncompressed_size, 8), LAMBDA s3 :
    Let(IF v < FNameBasedCompressionMethod422
        THEN Let(SerDeBytes(s3, ToLe(0, 4)), LAMBDA r :
                 IF r.st # "ok" THEN r
                 ELSE IF LegacyMethodIndex(r.v) < 0 THEN [r EXCEPT !.st = "Other"]
                 ELSE [r EXCEPT !.v = LegacyMethodIndex(r.v)])
        ELSE IF v = FNameBasedCompressionMethod422
        THEN SerDeInt(s3, 0, 1)
        ELSE SerDeInt(s3, self.compression_method_index, 4), LAMBDA s4 :
    Let(IF v <= Initial THEN SerDeInt(s4, 0, 8) ELSE s4, LAMBDA s5 :
    Let(SerDeBytes(s5, self.hash), LAMBDA s6 :
    Let(IF v >= CompressionEncryption /\ s4.st = "ok" /\ s4.v # 0
        THEN SerDeBlocks(s6, self.compression_blocks)
        ELSE [s6 EXCEPT !.v = self.compression_blocks], LAMBDA s7 :
    Let(IF v >= CompressionEncryption
        THEN SerDeInt(s7, self.flags, 1)
        ELSE [s7 EXCEPT !.v = self.flags], LAMBDA s8 :
    Let(IF v >= CompressionEncryption
        THEN SerDeInt(s8, self.compression_block_size, 4)
        ELSE [s8 EXCEPT !.v = self.compression_block_size], LAMBDA s9 :
    IF s9.st # "ok" THEN fail(s9.st)
    ELSE [st |-> "ok",
          self |-> [offset |-> s1.v, size |-> s2.v, uncompressed_size |-> s3.v,
                    hash |-> s6.v, compression_blocks |-> s7.v,
                    compression_block_size |-> s9.v,
                    compression_method_index |-> s4.v, flags |-> s8.v],
          ar |-> s9.ar])))))))))

\* PakEntry::ser_de_len / ser_de_len_with: ser_de into an ArchiveLen, unwrapped
EntrySerDeLen(self, v) ==
    Let(EntrySerDe(self, ArchiveLen, v), LAMBDA r :
        IF r.st = "ok" THEN [st |-> "ok", self |-> r.self, len |-> r.ar.len]
        ELSE [st |-> "panic", self |-> self, len |-> 0])

\* ArchivableWith::ser_len_with: the length of a clone
EntrySerLen(self, v) == EntrySerDeLen(self, v).len

(***************************************************************************)
(* PakIndexV2: the compact entry form.  The u32 of flags is kept as its    *)
(* low 31 bits and its top bit, apart.                                     *)
(***************************************************************************)
\* a | b
RECURSIVE BitOr(_, _)
BitOr(a, b) ==
    IF a = 0 THEN b
    ELSE IF b = 0 THEN a
    ELSE (IF a % 2 = 1 \/ b % 2 = 1 THEN 1 ELSE 0) + 2 * BitOr(a \div 2, b \div 2)

\* 2^k
RECURSIVE Pow2(_)
Pow2(k) == IF k = 0 THEN 1 ELSE 2 * Pow2(k - 1)

\* u32::try_from(n).ok().is_some(): the model's integers that fit are those
\* below Huge
fits_u32(n) == n < Huge

\* align, for an alignment that is a power of two
align(size, alignment) ==
    IF size >= Huge - alignment THEN Huge
    ELSE (size + alignment - 1) - ((size + alignment - 1) % alignment)

\* the loop of can_encode_entry over compression_blocks[1..]: TRUE if it
\* returns false
RECURSIVE BlocksNotContiguous(_, _, _, _)
BlocksNotContiguous(blocks, i, prev_size, alignment) ==
    IF i > Len(blocks) THEN FALSE
    ELSE \/ blocks[i].compressed_start
              # Add(blocks[i].compressed_start, align(prev_size, alignment))
         \/ BlocksNotContiguous(blocks, i + 1,
                                blocks[i].compressed_end - blocks[i].compressed_start,
                                alignment)

\* PakIndexV2::can_encode_entry
can_encode_entry(e, v) ==
    LET alignment == IF is_encrypted(e) THEN AES_BLOCK_SIZE ELSE 1
        header_size == EntrySerLen(e, v)
        blocks == e.compression_blocks
    IN IF e.compression_method_index >= Pow2(6) THEN FALSE
       ELSE IF Len(blocks) >= Pow2(16) THEN FALSE
       ELSE IF e.compression_method_index = 0 THEN TRUE
       ELSE IF e.compression_block_size # e.uncompressed_size
               /\ e.compression_block_size \div Pow2(11) > 63
       THEN FALSE
       ELSE IF Len(blocks) > 0 /\ header_size # blocks[1].compressed_start THEN FALSE
       ELSE IF Len(blocks) = 1
               /\ Add(header_size, e.size)
                    # Add(blocks[1].compressed_start,
                          align(blocks[1].compressed_end - blocks[1].compressed_start,
                                alignment))
       THEN FALSE
       ELSE IF Len(blocks) > 1
               /\ BlocksNotContiguous(blocks, 2,
                                      blocks[1].compressed_end - blocks[1].compressed_start,
                                      alignment)
       THEN FALSE
       ELSE TRUE

\* the low 31 bits of the flags word of encode_entry
EncodedFlags(e) ==
    BitOr((IF fits_u32(e.uncompressed_size) THEN Pow2(30) ELSE 0),
    BitOr((IF fits_u32(e.size) THEN Pow2(29) ELSE 0),
    BitOr(e.compression_method_index * Pow2(23),
    BitOr((IF is_encrypted(e) THEN Pow2(22) ELSE 0),
    BitOr(Len(e.compression_blocks) * Pow2(6),
          e.compression_block_size \div Pow2(11))))))

\* a u32 from its low 31 bits and its top bit, as bytes
ToLeU32(low, top) ==
    [ToLe(low, 4) EXCEPT ![4] = IF top THEN @ + 128 ELSE @]

\* v.ser(ar) of a u32 when the u64 fits, of the u64 otherwise
SerU32OrU64(s, n) ==
    IF fits_u32(n) THEN SerDeInt(s, n, 4) ELSE SerDeInt(s, n, 8)

\* the loop of encode_entry over the blocks: block_size.ser(ar), an i64
RECURSIVE SerBlockSizes(_, _, _)
SerBlockSizes(s, blocks, i) ==
    IF s.st # "ok" \/ i > Len(blocks) THEN s
    ELSE Let(SerDeI64(s, blocks[i].compressed_end - blocks[i].compressed_start), LAMBDA r :
             SerBlockSizes(r, blocks, i + 1))

\* PakIndexV2::encode_entry: v is the bool returned
encode_entry(s, e, v) ==
    IF s.st # "ok" THEN s
    ELSE IF ~can_encode_entry(e, v) THEN [s EXCEPT !.v = FALSE]
    ELSE
    Let(write_all(s, ToLeU32(EncodedFlags(e), fits_u32(e.offset))), LAMBDA s1 :
    Let(SerU32OrU64(s1, e.offset), LAMBDA s2 :
    Let(SerU32OrU64(s2, e.uncompressed_size), LAMBDA s3 :
    Let(IF e.compression_method_index # 0 THEN SerU32OrU64(s3, e.size) ELSE s3, LAMBDA s4 :
    Let(IF e.compression_method_index # 0
           /\ (Len(e.compression_blocks) > 1
               \/ (Len(e.compression_blocks) = 1 /\ is_encrypted(e)))
        THEN SerBlockSizes(s4, e.compression_blocks, 1)
        ELSE s4, LAMBDA s5 :
    IF s5.st # "ok" THEN s5 ELSE [s5 EXCEPT !.v = TRUE])))))

\* the loop of decode_entry that reads one u32 block size per block
RECURSIVE DeBlockSizes(_, _, _, _, _)
DeBlockSizes(s, n, compressed_start, alignment, acc) ==
    IF s.st # "ok" THEN s
    ELSE IF n = 0 THEN [s EXCEPT !.v = acc]
    ELSE Let(SerDeInt(s, 0, 4), LAMBDA r :
             IF r.st # "ok" THEN r
             ELSE DeBlockSizes(r, n - 1, Add(compressed_start, align(r.v, alignment)),
                               alignment,
                               Append(acc, [compressed_start |-> compressed_start,
                                            compressed_end |-> Add(compressed_start, r.v)])))

\* PakIndexV2::decode_entry: v is the entry
decode_entry(s, v) ==
    IF s.st # "ok" THEN s
    ELSE
    Let(read_exact(s, 4), LAMBDA s1 :
    IF s1.st # "ok" THEN s1
    ELSE
    LET top == s1.v[4] >= 128
        value == FromLe([s1.v EXCEPT ![4] = @ % 128])
        cmi == (value \div Pow2(23)) % 64
        encrypted == (value \div Pow2(22)) % 2 = 1
        compression_blocks_len == (value \div Pow2(6)) % Pow2(16)
    IN
    Let(IF top THEN SerDeInt(s1, 0, 4) ELSE SerDeInt(s1, 0, 8), LAMBDA s2 :
    Let(IF (value \div Pow2(30)) % 2 = 1 THEN SerDeInt(s2, 0, 4) ELSE SerDeInt(s2, 0, 8),
        LAMBDA s3 :
    Let(IF cmi = 0 THEN s3
        ELSE IF (value \div Pow2(29)) % 2 = 1 THEN SerDeInt(s3, 0, 4)
        ELSE SerDeInt(s3, 0, 8), LAMBDA s4 :
    IF s4.st # "ok" THEN s4
    ELSE
    Let([PakEntryDefault EXCEPT
           !.compression_method_index = cmi,
           !.offset = s2.v,
           !.uncompressed_size = s3.v,
           !.size = s4.v,
           !.flags = IF encrypted THEN FLAG_ENCRYPTED ELSE 0,
           !.compression_block_size =
               IF compression_blocks_len = 0 THEN 0
               ELSE IF s3.v < 65536 THEN s3.v
               ELSE (value % 64) * Pow2(11)], LAMBDA e :
    Let(EntrySerDeLen(e, v), LAMBDA hdr :
    IF compression_blocks_len = 0 THEN [s4 EXCEPT !.v = e]
    ELSE IF hdr.st # "ok" THEN [s4 EXCEPT !.st = "panic"]
    ELSE IF compression_blocks_len = 1 /\ ~encrypted
    THEN [s4 EXCEPT !.v = [hdr.self EXCEPT !.compression_blocks =
                              << [compressed_start |-> hdr.len,
                                  compressed_end |-> Add(hdr.len, hdr.self.size)] >>]]
    ELSE Let(DeBlockSizes(s4, compression_blocks_len, hdr.len,
                          IF encrypted THEN AES_BLOCK_SIZE ELSE 1, <<>>), LAMBDA s5 :
             IF s5.st # "ok" THEN s5
             ELSE [s5 EXCEPT !.v = [hdr.self EXCEPT !.compression_blocks = s5.v]])))))))

(***************************************************************************)
(* Entry scenarios: an entry is written in the full form at any version,   *)
(* or in the compact form from PathHashIndex on, and read back.            *)
(***************************************************************************)
MaxBlocks == 2

\* n contiguous blocks of block_len bytes each, the first at header_size
MakeBlocks(header_size, n, block_len, alignment) ==
    [i \in 1..n |->
        [compressed_start |-> header_size + (i - 1) * align(block_len, alignment),
         compressed_end |-> header_size + (i - 1) * align(block_len, alignment) + block_len]]

\* uncompressed entries
PlainEntries ==
    {[PakEntryDefault EXCEPT !.offset = o, !.size = n, !.uncompressed_size = n,
                             !.hash = h, !.flags = f] :
        o \in {0, 3, Huge}, n \in {3, 131072},
        h \in {Zeros(HASH_LEN), Sha1(<<1, 2, 3>>)},
        f \in {0, FLAG_ENCRYPTED, FLAG_DELETED}}

\* a compressed entry of n blocks whose first block starts where the header of
\* the entry ends at version v
CompressedEntry(v, n, f, block_len, usize, block_size) ==
    LET alignment == IF f = FLAG_ENCRYPTED THEN AES_BLOCK_SIZE ELSE 1
        shape == [PakEntryDefault EXCEPT
                    !.offset = 3, !.uncompressed_size = usize,
                    !.size = n * align(block_len, alignment),
                    !.compression_method_index = 1, !.flags = f,
                    !.compression_block_size = block_size,
                    !.compression_blocks = MakeBlocks(0, n, block_len, alignment)]
    IN [shape EXCEPT !.compression_blocks =
            MakeBlocks(EntrySerLen(shape, v), n, block_len, alignment)]

CompressedEntries(v) ==
    {CompressedEntry(v, n, f, block_len, usize, block_size) :
        n \in 1..MaxBlocks, f \in {0, FLAG_ENCRYPTED}, block_len \in {0, 10},
        usize \in {100, 131072}, block_size \in {100, 65536, 131072}}

\* entries outside the compact form or outside the entry invariants
OddEntries ==
    {[PakEntryDefault EXCEPT !.compression_method_index = 64, !.size = 3,
                             !.uncompressed_size = 5],
     [PakEntryDefault EXCEPT !.size = 3, !.uncompressed_size = 5]}

\* two blocks with a hole of 5 bytes between them, the first one empty or not
GappedEntries(v) ==
    {[e EXCEPT !.compression_blocks[2].compressed_start = @ + 5,
               !.compression_blocks[2].compressed_end = @ + 5] :
        e \in {CompressedEntry(v, 2, 0, block_len, 100, 100) : block_len \in {0, 10}}}

EntryCases(v) == PlainEntries \cup CompressedEntries(v) \cup OddEntries \cup GappedEntries(v)

InitEntry ==
    /\ pc = "start"
    /\ version \in 1..Len(list)
    /\ entry \in EntryCases(version)
    /\ orig = [mode |-> "entry", value |-> entry]
    /\ info = PakInfoDefault
    /\ index = <<>>
    /\ pos = 0
    /\ key = FALSE
    /\ writer = NoWriter
    /\ sha1_ar = ArchiveLen
    /\ next = NoNext
    /\ file = <<>>
    /\ res = NoRes

\* entry.ser_de(writer, version)
EntryEncode ==
    /\ pc = "start"
    /\ \E r \in {EntrySerDe(entry, ArchiveWriter(<<>>), version)} :
          /\ entry' = r.self
          /\ file' = r.ar.bytes
          /\ res' = [op |-> "encode", st |-> r.st]
    /\ pc' = "encoded"
    /\ UNCHANGED <<version, info, index, builderVars, loaderVars, orig>>

\* PakEntry::default().ser_de(reader, version) over the bytes just written
EntryDecode ==
    /\ pc = "encoded"
    /\ res.st = "ok"
    /\ \E r \in {EntrySerDe(PakEntryDefault, ArchiveReader(file, 0), version)} :
          /\ entry' = r.self
          /\ res' = [op |-> "decode", st |-> r.st, at |-> r.ar.at]
    /\ pc' = "decoded"
    /\ UNCHANGED <<version, info, index, builderVars, loaderVars, file, orig>>

\* PakIndexV2::encode_entry(writer, entry, version)
CompactEncode ==
    /\ pc = "start"
    /\ version >= PathHashIndex
    /\ \E r \in {encode_entry(Ok(ArchiveWriter(<<>>)), entry, version)} :
          /\ file' = r.ar.bytes
          /\ res' = [op |-> "encode_entry", st |-> r.st, accepted |-> r.v]
    /\ pc' = "compact"
    /\ UNCHANGED <<version, info, entry, index, builderVars, loaderVars, orig>>

\* PakIndexV2::decode_entry(reader, version) over the bytes just written
CompactDecode ==
    /\ pc = "compact"
    /\ res.st = "ok" /\ res.accepted
    /\ \E r \in {decode_entry(Ok(ArchiveReader(file, 0)), version)} :
          /\ entry' = IF r.st = "ok" THEN r.v ELSE PakEntryDefault
          /\ res' = [op |-> "decode_entry", st |-> r.st, at |-> r.ar.at]
    /\ pc' = "decompacted"
    /\ UNCHANGED <<version, info, index, builderVars, loaderVars, file, orig>>

NextEntry == EntryEncode \/ EntryDecode \/ CompactEncode \/ CompactDecode

SpecEntry == InitEntry /\ [][NextEntry]_vars

(***************************************************************************)
(* Claims about the entry codecs.                                          *)
(***************************************************************************)

\* C8 as stated: at every version, an entry written by PakEntry::ser_de and
\* read back by PakEntry::ser_de equals the entry written, in every field.
C8_EntryRoundTrip ==
    res.op = "decode" => res.st = "ok" /\ entry = orig.value

\* C9 as stated: from PathHashIndex on, an entry encode_entry accepts is
\* returned by decode_entry equal in every field.
C9_CompactRoundTrip ==
    res.op = "decode_entry" => res.st = "ok" /\ entry = orig.value

(***************************************************************************)
(* Strings and PakIndexV1.                                                 *)
(***************************************************************************)
\* impl Archivable for String
SerDeString(s, str) ==
    Let(SerDeInt(s, Len(str), 4), LAMBDA s1 :
        IF s1.st # "ok" THEN s1
        ELSE IF is_reader(s1.ar)
        THEN Let(read_exact(s1, s1.v), LAMBDA s2 :
                 IF s2.st # "ok" THEN s2
                 ELSE IF Len(s2.v) = 0 \/ s2.v[Len(s2.v)] # 0 THEN [s2 EXCEPT !.st = "Other"]
                 ELSE IF ~from_utf8_ok(SubSeq(s2.v, 1, Len(s2.v) - 1))
                 THEN [s2 EXCEPT !.st = "Other"]
                 ELSE [s2 EXCEPT !.v = SubSeq(s2.v, 1, Len(s2.v) - 1)])
        ELSE [write_all(s1, str \o <<0>>) EXCEPT !.v = str])

\* impl ArchivableWith<PakVersion> for PakIndexEntry
IndexEntrySerDe(s, f, v) ==
    Let(SerDeString(s, f.name), LAMBDA s1 :
        IF s1.st # "ok" THEN s1
        ELSE Let(EntrySerDe(f.entry, s1.ar, v), LAMBDA r :
                 [st |-> r.st, ar |-> r.ar, v |-> [name |-> s1.v, entry |-> r.self]]))

\* the item loop of impl ArchivableWith<E> for Vec<T>, T = PakIndexEntry
RECURSIVE IndexEntriesFrom(_, _, _, _, _, _)
IndexEntriesFrom(s, files, n, i, acc, v) ==
    IF s.st # "ok" THEN s
    ELSE IF i > n THEN [s EXCEPT !.v = acc]
    ELSE Let(IndexEntrySerDe(s, IF i <= Len(files) THEN files[i]
                                ELSE [name |-> <<>>, entry |-> PakEntryDefault], v),
             LAMBDA r : IndexEntriesFrom(r, files, n, i + 1, Append(acc, r.v), v))

\* impl ArchivableWith<E> for Vec<T>, T = PakIndexEntry: a u32 count, then the
\* items; a count the archive cannot hold ends in UnexpectedEof
SerDeIndexEntries(s, files, v) ==
    Let(SerDeInt(s, Len(files), 4), LAMBDA s1 :
        IF s1.st # "ok" THEN s1
        ELSE IF is_reader(s1.ar) /\ s1.v > Len(s1.ar.bytes)
        THEN [s1 EXCEPT !.st = "UnexpectedEof"]
        ELSE IndexEntriesFrom(s1, files, s1.v, 1, <<>>, v))

\* the map of a PakIndexV1: name -> position in files, the last one of a name
MapOf(files) ==
    [n \in {files[i].name : i \in 1..Len(files)} |->
        CHOOSE i \in 1..Len(files) :
            /\ files[i].name = n
            /\ \A j \in 1..Len(files) : files[j].name = n => j <= i]

\* impl Default for PakIndexV1
PakIndexV1Default == [mount_point |-> <<>>, map |-> MapOf(<<>>), files |-> <<>>]

\* PakIndexV1::add
V1AddEntry(self, name, e) ==
    [self EXCEPT !.files = Append(@, [name |-> name, entry |-> e]),
                 !.map = MapOf(Append(self.files, [name |-> name, entry |-> e]))]

\* PakIndexV1::ser_de
IndexV1SerDe(self, ar, v) ==
    Let(SerDeString(Ok(ar), self.mount_point), LAMBDA s1 :
    Let(SerDeIndexEntries(s1, self.files, v), LAMBDA s2 :
        IF s2.st # "ok" THEN [st |-> s2.st, self |-> self, ar |-> s2.ar]
        ELSE [st |-> "ok",
              self |-> [mount_point |-> s1.v, map |-> MapOf(s2.v), files |-> s2.v],
              ar |-> s2.ar]))

(***************************************************************************)
(* V1 index scenarios: an index is filled by add, written, and read back.  *)
(***************************************************************************)
MaxFiles == 2

\* "../../../", "", "a", "dir/a"
MountPoints == {<<46, 46, 47, 46, 46, 47, 46, 46, 47>>, <<>>}
FileNames == {<<97>>, <<100, 105, 114, 47, 97>>}

\* an uncompressed entry of three bytes, and a compressed one of one block
V1Entries(v) ==
    {[PakEntryDefault EXCEPT !.offset = 3, !.size = 3, !.uncompressed_size = 3,
                             !.hash = Sha1(<<1, 2, 3>>)],
     CompressedEntry(v, 1, 0, 10, 100, 100)}

InitV1 ==
    /\ pc = "start"
    /\ version \in 1..Len(list)
    /\ \E m \in MountPoints : index = [PakIndexV1Default EXCEPT !.mount_point = m]
    /\ orig = [mode |-> "v1", value |-> index]
    /\ info = PakInfoDefault
    /\ entry = NoEntry
    /\ pos = 0
    /\ key = FALSE
    /\ writer = NoWriter
    /\ sha1_ar = ArchiveLen
    /\ next = NoNext
    /\ file = <<>>
    /\ res = NoRes

\* index.add(name, entry)
V1Add ==
    /\ pc = "start"
    /\ Len(index.files) < MaxFiles
    /\ \E name \in FileNames, e \in V1Entries(version) :
          index' = V1AddEntry(index, name, e)
    /\ res' = [op |-> "add", st |-> "ok"]
    /\ UNCHANGED <<pc, version, info, entry, builderVars, loaderVars, file, orig>>

\* index.ser_de(writer, version)
V1Encode ==
    /\ pc = "start"
    /\ \E r \in {IndexV1SerDe(index, ArchiveWriter(<<>>), version)} :
          /\ index' = r.self
          /\ file' = r.ar.bytes
          /\ res' = [op |-> "encode", st |-> r.st]
    /\ orig' = [mode |-> "v1", value |-> index]
    /\ pc' = "encoded"
    /\ UNCHANGED <<version, info, entry, builderVars, loaderVars>>

\* PakIndexV1::default().ser_de(reader, version) over the bytes just written
V1Decode ==
    /\ pc = "encoded"
    /\ res.st = "ok"
    /\ \E r \in {IndexV1SerDe(PakIndexV1Default, ArchiveReader(file, 0), version)} :
          /\ index' = r.self
          /\ res' = [op |-> "decode", st |-> r.st, at |-> r.ar.at]
    /\ pc' = "decoded"
    /\ UNCHANGED <<version, info, entry, builderVars, loaderVars, file, orig>>

NextV1 == V1Add \/ V1Encode \/ V1Decode

SpecV1 == InitV1 /\ [][NextV1]_vars

(***************************************************************************)
(* Claims about the V1 index.                                              *)
(***************************************************************************)

\* C10 as stated: below PathHashIndex, a V1 index written by PakIndexV1::ser_de
\* is read back by PakIndexV1::ser_de with the same mount point and the same
\* (name, entry) pairs in the same order.
C10_IndexV1RoundTrip ==
    res.op = "decode" /\ version < PathHashIndex =>
        /\ res.st = "ok"
        /\ index.mount_point = orig.value.mount_point
        /\ index.files = orig.value.files

(***************************************************************************)
(* PakIndexV2: locations and the ordered maps.  A BTreeMap is a sequence   *)
(* of [k, v] in ascending key order; a u64 key is kept as its eight bytes, *)
(* most significant first, so that the byte order is the numeric order.    *)
(***************************************************************************)
\* from_le_bytes of an i32
FromLeI32(bs) ==
    IF bs[4] < 128 THEN FromLe(bs)
    ELSE (FromLe([bs EXCEPT ![4] = @ - 128]) - Huge) - 1

\* doit!(i32)
SerDeI32(s, n) ==
    IF s.st # "ok" THEN s
    ELSE IF is_reader(s.ar)
         THEN Let(read_exact(s, 4), LAMBDA r :
                  IF r.st = "ok" THEN [r EXCEPT !.v = FromLeI32(r.v)] ELSE r)
         ELSE [write_all(s, ToLe(n, 4)) EXCEPT !.v = n]

Reverse(bs) == [i \in 1..Len(bs) |-> bs[Len(bs) + 1 - i]]

\* doit!(u64) for a map key
SerDeKey64(s, k) ==
    IF s.st # "ok" THEN s
    ELSE IF is_reader(s.ar)
         THEN Let(read_exact(s, 8), LAMBDA r :
                  IF r.st = "ok" THEN [r EXCEPT !.v = Reverse(r.v)] ELSE r)
         ELSE [write_all(s, Reverse(k)) EXCEPT !.v = k]

\* Ord for byte strings
BytesLess(a, b) ==
    \E i \in 1..(Len(a) + 1) :
        /\ \A j \in 1..(i - 1) : j <= Len(b) /\ a[j] = b[j]
        /\ i <= Len(b)
        /\ (i > Len(a) \/ a[i] < b[i])

\* BTreeMap::insert
MapInsert(m, k, v) ==
    SelectSeq(m, LAMBDA p : BytesLess(p.k, k))
        \o << [k |-> k, v |-> v] >>
        \o SelectSeq(m, LAMBDA p : BytesLess(k, p.k))

\* RawPakEntryLocation::from_offset
from_offset(offset) == offset

\* RawPakEntryLocation::from_index
negated_index(i) == 0 - i

from_index(i) == (0 - i) - 1

\* RawPakEntryLocation::get
LocationGet(x) ==
    IF x = Huge \/ x = (0 - Huge) - 1 THEN [kind |-> "Deleted", at |-> 0]
    ELSE IF x < 0 THEN [kind |-> "Index", at |-> 0 - (x + 1)]
    ELSE [kind |-> "Offset", at |-> x]

\* the loops of impl Archivable for BTreeMap<K, V>, K = u64,
\* V = RawPakEntryLocation: n pairs read and inserted, or the pairs of m written
RECURSIVE PathHashPairs(_, _, _, _, _)
PathHashPairs(s, m, n, i, acc) ==
    IF s.st # "ok" THEN s
    ELSE IF i > n THEN [s EXCEPT !.v = acc]
    ELSE Let(SerDeKey64(s, IF i <= Len(m) THEN m[i].k ELSE Zeros(8)), LAMBDA s1 :
         Let(SerDeI32(s1, IF i <= Len(m) THEN m[i].v ELSE 0), LAMBDA s2 :
             IF s2.st # "ok" THEN s2
             ELSE PathHashPairs(s2, m, n, i + 1, MapInsert(acc, s1.v, s2.v))))

\* impl Archivable for BTreeMap<u64, RawPakEntryLocation>
SerDePathHashIndex(s, m) ==
    Let(SerDeInt(s, Len(m), 4), LAMBDA s1 :
        IF s1.st # "ok" THEN s1
        ELSE IF is_reader(s1.ar) /\ s1.v > Len(s1.ar.bytes)
        THEN [s1 EXCEPT !.st = "UnexpectedEof"]
        ELSE PathHashPairs(s1, m, s1.v, 1, <<>>))

\* the same loops for K = String, V = RawPakEntryLocation
RECURSIVE DirFilePairs(_, _, _, _, _)
DirFilePairs(s, m, n, i, acc) ==
    IF s.st # "ok" THEN s
    ELSE IF i > n THEN [s EXCEPT !.v = acc]
    ELSE Let(SerDeString(s, IF i <= Len(m) THEN m[i].k ELSE <<>>), LAMBDA s1 :
         Let(SerDeI32(s1, IF i <= Len(m) THEN m[i].v ELSE 0), LAMBDA s2 :
             IF s2.st # "ok" THEN s2
             ELSE DirFilePairs(s2, m, n, i + 1, MapInsert(acc, s1.v, s2.v))))

\* impl Archivable for BTreeMap<String, RawPakEntryLocation>
SerDeDirFiles(s, m) ==
    Let(SerDeInt(s, Len(m), 4), LAMBDA s1 :
        IF s1.st # "ok" THEN s1
        ELSE IF is_reader(s1.ar) /\ s1.v > Len(s1.ar.bytes)
        THEN [s1 EXCEPT !.st = "UnexpectedEof"]
        ELSE DirFilePairs(s1, m, s1.v, 1, <<>>))

\* the same loops for K = String, V = BTreeMap<String, RawPakEntryLocation>
RECURSIVE DirPairs(_, _, _, _, _)
DirPairs(s, m, n, i, acc) ==
    IF s.st # "ok" THEN s
    ELSE IF i > n THEN [s EXCEPT !.v = acc]
    ELSE Let(SerDeString(s, IF i <= Len(m) THEN m[i].k ELSE <<>>), LAMBDA s1 :
         Let(SerDeDirFiles(s1, IF i <= Len(m) THEN m[i].v ELSE <<>>), LAMBDA s2 :
             IF s2.st # "ok" THEN s2
             ELSE DirPairs(s2, m, n, i + 1, MapInsert(acc, s1.v, s2.v))))

\* impl Archivable for BTreeMap<String, BTreeMap<String, RawPakEntryLocation>>
SerDeDirIndex(s, m) ==
    Let(SerDeInt(s, Len(m), 4), LAMBDA s1 :
        IF s1.st # "ok" THEN s1
        ELSE IF is_reader(s1.ar) /\ s1.v > Len(s1.ar.bytes)
        THEN [s1 EXCEPT !.st = "UnexpectedEof"]
        ELSE DirPairs(s1, m, s1.v, 1, <<>>))

\* the item loop of impl ArchivableWith<E> for Vec<T>, T = PakEntry
RECURSIVE EntriesFrom(_, _, _, _, _, _)
EntriesFrom(s, files, n, i, acc, v) ==
    IF s.st # "ok" THEN s
    ELSE IF i > n THEN [s EXCEPT !.v = acc]
    ELSE Let(EntrySerDe(IF i <= Len(files) THEN files[i] ELSE PakEntryDefault, s.ar, v),
             LAMBDA r : EntriesFrom([st |-> r.st, ar |-> r.ar, v |-> r.self],
                                    files, n, i + 1, Append(acc, r.self), v))

\* impl ArchivableWith<E> for Vec<T>, T = PakEntry
SerDeEntries(s, files, v) ==
    Let(SerDeInt(s, Len(files), 4), LAMBDA s1 :
        IF s1.st # "ok" THEN s1
        ELSE IF is_reader(s1.ar) /\ s1.v > Len(s1.ar.bytes)
        THEN [s1 EXCEPT !.st = "UnexpectedEof"]
        ELSE EntriesFrom(s1, files, s1.v, 1, <<>>, v))

\* encoded_pak_entries: a u32 length, then the bytes
SerDeEncoded(s, bs) ==
    Let(SerDeInt(s, Len(bs), 4), LAMBDA s1 :
        IF s1.st # "ok" THEN s1
        ELSE IF is_reader(s1.ar) THEN read_exact(s1, s1.v)
        ELSE write_all(s1, bs))

(***************************************************************************)
(* PakIndexV2::ser_de as PakFile::_load_index runs it, on a reader.  The   *)
(* routine is cut where it calls the seek closure: V2Header reads up to    *)
(* files, ReadPathHashIndex and ReadFullDirectoryIndex read one region     *)
(* each, and V2Resume runs the control flow between them up to the next    *)
(* call of the closure or to the end of ser_de.                            *)
(***************************************************************************)
\* impl Default for PakIndexV2
PakIndexV2Default ==
    [mount_point |-> <<>>, num_entries |-> 0, files |-> <<>>, path_hash_seed |-> 0,
     encoded_pak_entries |-> <<>>, decoded_pak_entries |-> <<>>,
     has_path_hash_index |-> FALSE, path_hash_index_offset |-> 0,
     path_hash_index_size |-> 0, path_hash_index_hash |-> Zeros(HASH_LEN),
     path_hash_index |-> <<>>, pruned_directory_index |-> <<>>,
     has_full_directory_index |-> FALSE, full_directory_index_offset |-> 0,
     full_directory_index_size |-> 0, full_directory_index_hash |-> Zeros(HASH_LEN),
     full_directory_index |-> <<>>]

\* PakIndexV2::ser_de, from mount_point to files
V2Header(self, ar, v) ==
    Let(SerDeString(Ok(ar), self.mount_point), LAMBDA s1 :
    Let(SerDeInt(s1, self.num_entries, 4), LAMBDA s2 :
    Let(SerDeInt(s2, self.path_hash_seed, 8), LAMBDA s3 :
    Let(SerDeBool(s3, self.has_path_hash_index), LAMBDA s4 :
    LET p == s4.st = "ok" /\ s4.v IN
    Let(IF p THEN SerDeI64(s4, self.path_hash_index_offset)
        ELSE [s4 EXCEPT !.v = self.path_hash_index_offset], LAMBDA s5 :
    Let(IF p THEN SerDeI64(s5, self.path_hash_index_size)
        ELSE [s5 EXCEPT !.v = self.path_hash_index_size], LAMBDA s6 :
    Let(IF p THEN SerDeBytes(s6, self.path_hash_index_hash)
        ELSE [s6 EXCEPT !.v = self.path_hash_index_hash], LAMBDA s7 :
    Let(SerDeBool(s7, self.has_full_directory_index), LAMBDA s8 :
    LET f == s8.st = "ok" /\ s8.v IN
    Let(IF f THEN SerDeI64(s8, self.full_directory_index_offset)
        ELSE [s8 EXCEPT !.v = self.full_directory_index_offset], LAMBDA s9 :
    Let(IF f THEN SerDeI64(s9, self.full_directory_index_size)
        ELSE [s9 EXCEPT !.v = self.full_directory_index_size], LAMBDA s10 :
    Let(IF f THEN SerDeBytes(s10, self.full_directory_index_hash)
        ELSE [s10 EXCEPT !.v = self.full_directory_index_hash], LAMBDA s11 :
    Let(SerDeEncoded(s11, self.encoded_pak_entries), LAMBDA s12 :
    Let(SerDeEntries(s12, self.files, v), LAMBDA s13 :
    IF s13.st # "ok" THEN [st |-> s13.st, self |-> self, ar |-> s13.ar]
    ELSE [st |-> "ok",
          self |-> [self EXCEPT
                      !.mount_point = s1.v, !.num_entries = s2.v,
                      !.path_hash_seed = s3.v, !.has_path_hash_index = s4.v,
                      !.path_hash_index_offset = s5.v, !.path_hash_index_size = s6.v,
                      !.path_hash_index_hash = s7.v,
                      !.has_full_directory_index = s8.v,
                      !.full_directory_index_offset = s9.v,
                      !.full_directory_index_size = s10.v,
                      !.full_directory_index_hash = s11.v,
                      !.encoded_pak_entries = s12.v, !.files = s13.v],
          ar |-> s13.ar])))))))))))))

\* PakIndexV2::ser_de: path_hash_index and pruned_directory_index
ReadPathHashIndex(self, ar) ==
    Let(SerDePathHashIndex(Ok(ar), self.path_hash_index), LAMBDA s1 :
    Let(SerDeDirIndex(s1, self.pruned_directory_index), LAMBDA s2 :
    IF s2.st # "ok" THEN [st |-> s2.st, self |-> self, ar |-> s2.ar]
    ELSE [st |-> "ok",
          self |-> [self EXCEPT !.path_hash_index = s1.v,
                                !.pruned_directory_index = s2.v],
          ar |-> s2.ar]))

\* PakIndexV2::ser_de: full_directory_index
ReadFullDirectoryIndex(self, ar) ==
    Let(SerDeDirIndex(Ok(ar), self.full_directory_index), LAMBDA s1 :
    IF s1.st # "ok" THEN [st |-> s1.st, self |-> self, ar |-> s1.ar]
    ELSE [st |-> "ok", self |-> [self EXCEPT !.full_directory_index = s1.v], ar |-> s1.ar])

\* the closing statement of PakIndexV2::ser_de: every Offset location of
\* path_hash_index, in key order, decoded from encoded_pak_entries; st and
\* label are those of the first error
RECURSIVE DecodeLocations(_, _, _, _)
DecodeLocations(self, i, acc, v) ==
    IF i > Len(self.path_hash_index) THEN [st |-> "ok", label |-> "", decoded |-> acc]
    ELSE LET loc == LocationGet(self.path_hash_index[i].v) IN
         IF loc.kind # "Offset" THEN DecodeLocations(self, i + 1, acc, v)
         ELSE IF loc.at > Len(self.encoded_pak_entries)
         THEN [st |-> "InvalidData", label |-> "pak entry location", decoded |-> acc]
         ELSE Let(decode_entry(Ok(ArchiveReader(SubSeq(self.encoded_pak_entries, loc.at + 1,
                                                       Len(self.encoded_pak_entries)), 0)), v),
                  LAMBDA r :
                  IF r.st # "ok" THEN [st |-> r.st, label |-> "", decoded |-> acc]
                  ELSE DecodeLocations(self, i + 1,
                                       MapInsert(acc, ToLe(loc.at, 4), r.v), v))

\* PakIndexV2::ser_de between the regions: stage is the part just read; the
\* result stops at the next call of the seek closure (at |-> its ctx) or at the
\* end of ser_de (at |-> "end")
RECURSIVE V2Resume(_, _, _)
V2Resume(self, stage, v) ==
    LET stop(st, label, at) == [st |-> st, label |-> label, self |-> self, at |-> at] IN
    IF stage = "PakIndex"
    THEN IF self.has_path_hash_index /\ self.path_hash_index_offset # -1
         THEN IF self.path_hash_index_offset < 0
              THEN stop("InvalidData", "PathHashIndexOffset", "")
              ELSE stop("ok", "", "PathHashIndex")
         ELSE V2Resume(self, "PathHashIndex", v)
    ELSE IF stage = "PathHashIndex"
    THEN IF self.has_full_directory_index /\ self.full_directory_index_offset # 0
         THEN IF self.full_directory_index_offset < 0
              THEN stop("InvalidData", "FullDirectoryIndexOffset", "")
              ELSE stop("ok", "", "FullDirectoryIndex")
         ELSE V2Resume(self, "FullDirectoryIndex", v)
    ELSE IF self.has_path_hash_index
    THEN Let(DecodeLocations(self, 1, <<>>, v), LAMBDA d :
             IF d.st # "ok" THEN stop(d.st, d.label, "")
             ELSE [st |-> "ok", label |-> "",
                   self |-> [self EXCEPT !.decoded_pak_entries = d.decoded],
                   at |-> "end"])
    ELSE stop("ok", "", "end")

(***************************************************************************)
(* PakFile::load_any.  The probe takes one candidate version per step;     *)
(* load_index runs up to the first call of the seek closure, and each      *)
(* boundary step runs one call of the closure (or the closing check of     *)
(* _load_index) and the part of ser_de that follows it.  pc names the      *)
(* region the pending call is about to enter, or "end".                    *)
(***************************************************************************)
\* PakVersion::list().iter().rev()
ProbeOrder == Reverse(list)

\* the arm of de_pakinfo_versions that goes on to an older version, taking
\* every error
is_any_error(st) == st # "ok"

\* the guard of the arm of de_pakinfo_versions that goes on to an older version
is_invalid_input(st) == st = "InvalidInput"

\* ArchiveLenSha1::len_sha1
len_sha1(ar) == [len |-> Len(ar.tee), sha1 |-> Sha1(ar.tee), ar |-> [ar EXCEPT !.tee = <<>>]]

\* the comparison of _load_index at a boundary, without the hash
CorruptLen(n, ar_len, ar_hash) == n.size # ar_len

\* the comparison _load_index makes at a boundary
Corrupt(n, ar_len, ar_hash) == n.size # ar_len \/ ar_hash # n.hash

\* an i64 field passed `as u64`
as_u64(n) == IF n < 0 THEN Huge ELSE n

\* where a stretch of _load_index leaves the load
Stretch(at, st, label, idx, ar, n) ==
    [pc |-> at, st |-> st, label |-> label, index |-> idx, ar |-> ar, next |-> n]

\* PakIndexV2::ser_de from the end of the part r just read (stage) to the next
\* call of the closure, to the end of ser_de, or to an error
Proceed(r, stage, n, v) ==
    IF r.st # "ok" THEN Stretch("failed", r.st, "", r.self, r.ar, n)
    ELSE Let(V2Resume(r.self, stage, v), LAMBDA w :
             IF w.st # "ok" THEN Stretch("failed", w.st, w.label, w.self, r.ar, n)
             ELSE Stretch(w.at, "ok", "", w.self, r.ar, n))

\* the test of load_index for a frozen index
frozen_ignored(inf) == FALSE

is_frozen(inf) == inf.version >= FrozenIndex /\ inf.index_is_frozen

\* PakFile::load_index with the key "" of load_any, and _load_index up to the
\* first boundary
load_index(inf, bytes) ==
    LET ar == ArchiveReader(bytes, inf.index_offset)
        n == [size |-> inf.index_size, hash |-> inf.hash, ctx |-> "PakIndex"]
    IN IF is_frozen(inf)
       THEN Stretch("failed", "InvalidData", "frozen", <<>>, ar, NoNext)
       ELSE IF inf.encrypted_index
       THEN Stretch("failed", "InvalidData", "key size", <<>>, ar, NoNext)
       ELSE IF inf.version >= PathHashIndex
       THEN Proceed(V2Header(PakIndexV2Default, ar, inf.version), "PakIndex", n, inf.version)
       ELSE Let(IndexV1SerDe(PakIndexV1Default, ar, inf.version), LAMBDA r :
                IF r.st # "ok" THEN Stretch("failed", r.st, "", r.self, r.ar, n)
                ELSE Stretch("end", "ok", "", r.self, r.ar, n))

\* one call of the closure of _load_index entering region at, or (at = "end")
\* the closing check; pad does nothing without encryption
boundary(idx, ar, n, at, v) ==
    Let(len_sha1(ar), LAMBDA c :
        IF Corrupt(n, c.len, c.sha1)
        THEN Stretch("failed", "InvalidData", n.ctx, idx, c.ar, n)
        ELSE IF at = "end" THEN Stretch("loaded", "ok", "", idx, c.ar, n)
        ELSE IF at = "PathHashIndex"
        THEN Proceed(ReadPathHashIndex(idx, [c.ar EXCEPT !.at = idx.path_hash_index_offset]),
                     "PathHashIndex",
                     [size |-> as_u64(idx.path_hash_index_size),
                      hash |-> idx.path_hash_index_hash, ctx |-> "PathHashIndex"], v)
        ELSE Proceed(ReadFullDirectoryIndex(idx, [c.ar EXCEPT
                                                    !.at = idx.full_directory_index_offset]),
                     "FullDirectoryIndex",
                     [size |-> as_u64(idx.full_directory_index_size),
                      hash |-> idx.full_directory_index_hash,
                      ctx |-> "FullDirectoryIndex"], v))

NoLoad ==
    [op |-> "load_any", st |-> "ok", label |-> "", tried |-> <<>>, entered |-> <<>>,
     checks |-> <<>>]

\* one turn of the loop of de_pakinfo_versions
Probe ==
    /\ pc = "probe"
    /\ \E l \in {InfoSerDeLen(PakInfoNew(version))} :
       \E r \in {IF l.len < Len(file)
                 THEN InfoSerDe(l.self, ArchiveReader(file, Len(file) - l.len))
                 ELSE [st |-> "skipped", self |-> l.self, ar |-> ArchiveLen]} :
          LET k == Len(res.tried) + 1
              t == [version |-> version,
                    at |-> IF r.st = "skipped" THEN -1 ELSE Len(file) - l.len,
                    outcome |-> r.st]
              older == r.st = "skipped" \/ is_invalid_input(r.st)
          IN /\ pc' = IF r.st = "ok" THEN "load_index"
                      ELSE IF older /\ k < Len(ProbeOrder) THEN "probe"
                      ELSE "failed"
             /\ version' = IF older /\ k < Len(ProbeOrder) THEN ProbeOrder[k + 1] ELSE version
             /\ info' = IF r.st = "ok" THEN r.self ELSE info
             /\ res' = [res EXCEPT
                          !.tried = Append(@, t),
                          !.st = IF r.st = "ok" THEN "ok"
                                 ELSE IF older THEN
                                      IF k < Len(ProbeOrder) THEN "ok" ELSE "InvalidData"
                                 ELSE r.st,
                          !.label = IF older /\ k = Len(ProbeOrder)
                                    THEN "no compatible version found" ELSE ""]
    /\ UNCHANGED <<entry, index, builderVars, loaderVars, file, orig>>

\* load_index, and _load_index up to the first boundary
LoadIndex ==
    /\ pc = "load_index"
    /\ \E r \in {load_index(info, file)} :
          /\ pc' = r.pc
          /\ index' = r.index
          /\ sha1_ar' = r.ar
          /\ next' = r.next
          /\ res' = [res EXCEPT !.st = r.st, !.label = r.label,
                                !.entered = IF r.next = NoNext THEN @ ELSE <<"PakIndex">>]
    /\ UNCHANGED <<version, info, entry, builderVars, file, orig>>

\* a boundary of _load_index and the part of ser_de behind it
Boundary ==
    /\ pc \in {"PathHashIndex", "FullDirectoryIndex", "end"}
    /\ \E r \in {boundary(index, sha1_ar, next, pc, info.version)} :
          /\ pc' = r.pc
          /\ index' = r.index
          /\ sha1_ar' = r.ar
          /\ next' = r.next
          /\ res' = [res EXCEPT
                       !.st = r.st, !.label = r.label,
                       !.checks = Append(@, [ctx |-> next.ctx, read |-> sha1_ar.tee,
                                             size |-> next.size, hash |-> next.hash]),
                       !.entered = IF r.next # next THEN Append(@, pc) ELSE @]
    /\ UNCHANGED <<version, info, entry, builderVars, file, orig>>

(***************************************************************************)
(* Files to load.  They are laid out as the reader takes them: a string is *)
(* its length with the NUL counted, the bytes and the NUL.  A file is the  *)
(* record and payload of one asset, the index (for version >=              *)
(* PathHashIndex followed by its PathHashIndex and FullDirectoryIndex      *)
(* regions) and the trailer, whose index_size and hash are those of the    *)
(* index.                                                                  *)
(***************************************************************************)
FixMount == <<47>>
FixDir == <<100, 47>>
FixName == <<97>>
FixPayload == <<1, 2, 3>>

\* a string as the reader of impl Archivable for String takes it
FixString(str) == ToLe(Len(str) + 1, 4) \o str \o <<0>>

\* an i64 as doit!(i64) reads it
FixI64(n) == IF n < 0 THEN [i \in 1..8 |-> 255] ELSE ToLe(n, 8)

FixEntry ==
    [PakEntryDefault EXCEPT !.size = Len(FixPayload), !.uncompressed_size = Len(FixPayload),
                            !.hash = Sha1(FixPayload)]

\* the record in front of the payload, and the payload
FixRecord(v) == EntrySerDe(FixEntry, ArchiveWriter(<<>>), v).ar.bytes \o FixPayload

\* a PakIndexV1 of n files
FixIndexV1(n, v) ==
    FixString(FixMount) \o ToLe(n, 4)
        \o (IF n = 0 THEN <<>>
            ELSE FixString(FixDir \o FixName)
                     \o EntrySerDe(FixEntry, ArchiveWriter(<<>>), v).ar.bytes)

\* the PathHashIndex region: one hash at offset 0 of the encoded entries, and
\* an empty pruned directory index
FixPathHash ==
    ToLe(1, 4) \o <<9, 8, 7, 6, 5, 4, 3, 2>> \o ToLe(from_offset(0), 4) \o ToLe(0, 4)

\* the FullDirectoryIndex region: one directory with one file
FixFullDir ==
    ToLe(1, 4) \o FixString(FixDir) \o ToLe(1, 4) \o FixString(FixName)
        \o ToLe(from_offset(0), 4)

\* how a region is announced: "region" (present), "unset" (announced with the
\* offset that means none) or "absent" (flag off)
FixShapes ==
    {[phi |-> "region", fdi |-> "region"], [phi |-> "region", fdi |-> "absent"],
     [phi |-> "absent", fdi |-> "region"], [phi |-> "absent", fdi |-> "absent"],
     [phi |-> "unset", fdi |-> "unset"]}

\* the top-level part of a PakIndexV2 whose PathHashIndex region is region
FixHeaderWith(sh, v, phi_at, fdi_at, region) ==
    Let(encode_entry(Ok(ArchiveWriter(<<>>)), FixEntry, v).ar.bytes, LAMBDA enc :
        FixString(FixMount) \o ToLe(1, 4) \o ToLe(5, 8)
            \o (IF sh.phi = "absent" THEN ToLe(0, 4)
                ELSE ToLe(1, 4) \o FixI64(IF sh.phi = "unset" THEN -1 ELSE phi_at)
                         \o ToLe(Len(region), 8) \o Sha1(region))
            \o (IF sh.fdi = "absent" THEN ToLe(0, 4)
                ELSE ToLe(1, 4) \o FixI64(IF sh.fdi = "unset" THEN 0 ELSE fdi_at)
                         \o ToLe(Len(FixFullDir), 8) \o Sha1(FixFullDir))
            \o ToLe(Len(enc), 4) \o enc \o ToLe(0, 4))

\* the top-level part of a PakIndexV2
FixHeader(sh, v, phi_at, fdi_at) == FixHeaderWith(sh, v, phi_at, fdi_at, FixPathHash)

\* the trailer of an index that lies at off
FixTrailer(v, off, idx, c) ==
    TrailerOnDisk([index_offset |-> off, index_size |-> Len(idx), hash |-> Sha1(idx),
                   encrypted_index |-> c.encrypted_index,
                   index_is_frozen |-> c.index_is_frozen,
                   encryption_key_guid |-> <<1, 2, 3, 4>>, names |-> c.names], v)

FixPlain == [encrypted_index |-> FALSE, index_is_frozen |-> FALSE, names |-> <<>>]

\* the parts of a file: pre, the index idx, the regions behind it, the trailer;
\* region is the PathHashIndex region
FixPartsWith(sh, v, region) ==
    Let(FixRecord(v), LAMBDA pre :
    Let(IF v >= PathHashIndex THEN Len(FixHeader(sh, v, 0, 0)) ELSE 0, LAMBDA hl :
    LET phi == IF v >= PathHashIndex /\ sh.phi = "region" THEN region ELSE <<>>
        fdi == IF v >= PathHashIndex /\ sh.fdi = "region" THEN FixFullDir ELSE <<>>
    IN [pre |-> pre,
        idx |-> IF v >= PathHashIndex
                THEN FixHeaderWith(sh, v, Len(pre) + hl, Len(pre) + hl + Len(phi), region)
                ELSE FixIndexV1(IF sh.phi = "absent" THEN 0 ELSE 1, v),
        phi |-> phi, fdi |-> fdi]))

FixParts(sh, v) == FixPartsWith(sh, v, FixPathHash)

FixFile(p, v, c) == p.pre \o p.idx \o p.phi \o p.fdi \o FixTrailer(v, Len(p.pre), p.idx, c)

\* what is added to the byte that changes
Flips == {1, 128}

Flip(bs, k, d) == [bs EXCEPT ![k] = (@ + d) % 256]

\* the versions whose files are also loaded with one byte changed
FlipVersions == {PathHashIndex, Fnv64BugFix, FrozenIndex}

\* a file to load and what it was made from: byte at of the region had add
\* added to it
LoadCase(mode, reg, k, d, v, f) ==
    [mode |-> mode, region |-> reg, at |-> k, add |-> d, version |-> v, file |-> f]

\* the file f of parts p with one byte of a region changed ("mutated"), and
\* the files of p with one byte of the index changed before the trailer was
\* made ("resigned")
FlipCases(p, f, v) ==
    {LoadCase("mutated", "PakIndex", k, d, v, Flip(f, Len(p.pre) + k, d)) :
        k \in 1..Len(p.idx), d \in Flips}
    \cup {LoadCase("mutated", "PathHashIndex", k, d, v, Flip(f, Len(p.pre) + Len(p.idx) + k, d)) :
             k \in 1..Len(p.phi), d \in Flips}
    \cup {LoadCase("mutated", "FullDirectoryIndex", k, d, v,
                   Flip(f, Len(p.pre) + Len(p.idx) + Len(p.phi) + k, d)) :
             k \in 1..Len(p.fdi), d \in Flips}
    \cup {LoadCase("resigned", "PakIndex", k, d, v,
                   FixFile([p EXCEPT !.idx = Flip(@, k, d)], v, FixPlain)) :
             k \in 1..Len(p.idx), d \in Flips}

\* the files whose trailer is frozen, encrypted or names a method that is not
\* UTF-8, and the file that is a trailer and nothing else
OddCases(p, v) ==
    {LoadCase("flagged", "", 0, 0, v, FixFile(p, v, c)) :
        c \in {[FixPlain EXCEPT !.encrypted_index = TRUE],
               [FixPlain EXCEPT !.index_is_frozen = TRUE],
               [FixPlain EXCEPT !.names = << <<255>> >>]}}
    \cup {LoadCase("trailer", "", 0, 0, v, FixTrailer(v, 0, <<>>, FixPlain))}

\* the files of one version and shape
ShapeCases(sh, v) ==
    Let(FixParts(sh, v), LAMBDA p :
    Let(FixFile(p, v, FixPlain), LAMBDA f :
        {LoadCase("valid", "", 0, 0, v, f)}
        \cup (IF sh.phi = "region" /\ sh.fdi = "region"
              THEN OddCases(p, v) \cup (IF v \in FlipVersions THEN FlipCases(p, f, v) ELSE {})
              ELSE {})))

LoadCases == UNION {ShapeCases(sh, v) : sh \in FixShapes, v \in 1..Len(list)}

InitLoad ==
    /\ pc = "probe"
    /\ version = ProbeOrder[1]
    /\ info = PakInfoDefault
    /\ entry = NoEntry
    /\ index = <<>>
    /\ pos = 0
    /\ key = FALSE
    /\ writer = NoWriter
    /\ sha1_ar = ArchiveLen
    /\ next = NoNext
    /\ res = NoLoad
    /\ \E c \in LoadCases :
          /\ file = c.file
          /\ orig = [mode |-> c.mode, region |-> c.region, at |-> c.at, add |-> c.add,
                     version |-> c.version]

NextLoad == Probe \/ LoadIndex \/ Boundary

SpecLoad == InitLoad /\ [][NextLoad]_vars

(***************************************************************************)
(* The probe and the boundaries of a load.                                 *)
(***************************************************************************)
\* the probe went through the candidates in order, each parsed where its
\* trailer would begin; newer(t) is what must hold of every newer candidate
ProbeInOrder(newer(_)) ==
    \A i \in 1..Len(res.tried) :
        LET t == res.tried[i] IN
        /\ t.version = ProbeOrder[i]
        /\ t.outcome # "skipped" =>
              /\ t.at = Len(file) - InfoLenOf(t.version)
              /\ \A j \in 1..(i - 1) : newer(res.tried[j])
        /\ t.outcome = "ok" =>
              i = Len(res.tried) /\ pc # "probe" /\ info.version = t.version
        /\ t.outcome \notin {"ok", "skipped", "InvalidInput"} =>
              i = Len(res.tried) /\ pc = "failed" /\ res.st = t.outcome

\* C4 as stated: the probe of load_any tries the versions from newest to
\* oldest, each at EOF minus its trailer length, a version only after every
\* newer one failed with InvalidInput; the first that parses is accepted and
\* any other error ends the probe
C4_ProbeAfterInvalidInput ==
    ProbeInOrder(LAMBDA t : t.outcome = "InvalidInput")

\* C4: the probe of load_any goes through the versions from newest to oldest;
\* a version whose trailer is not shorter than the file is passed over
\* unparsed, any other is parsed at EOF minus its trailer length, and only
\* after every newer version was passed over or failed with InvalidInput; the
\* first that parses is accepted and any other error ends the probe
C4_ProbeOrder ==
    /\ ProbeInOrder(LAMBDA t : t.outcome \in {"InvalidInput", "skipped"})
    /\ \A i \in 1..Len(res.tried) :
          res.tried[i].outcome = "skipped" <=> InfoLenOf(res.tried[i].version) >= Len(file)

\* a version accepted after newer ones were passed over and another failed
C4_Witness ==
    /\ pc = "load_index"
    /\ \E i, j \in 1..Len(res.tried) :
          res.tried[i].outcome = "skipped" /\ res.tried[j].outcome = "InvalidInput"

\* where the region a boundary closes begins in the file
RegionStart(ctx) ==
    IF ctx = "PakIndex" THEN info.index_offset
    ELSE IF ctx = "PathHashIndex" THEN index.path_hash_index_offset
    ELSE index.full_directory_index_offset

\* the bytes read up to a boundary are the region as recorded
CheckPassed(c) ==
    /\ Len(c.read) = c.size
    /\ Sha1(c.read) = c.hash
    /\ c.read = SubSeq(file, RegionStart(c.ctx) + 1, RegionStart(c.ctx) + c.size)

\* C2: at every boundary of a load the bytes read since the last boundary have
\* the recorded length and the recorded SHA1 of the region being closed, or
\* the load fails there with InvalidData naming that region; a load that
\* returns an index has checked every region it entered
C2_BoundaryChecks ==
    /\ Len(res.checks) <= Len(res.entered)
    /\ \A i \in 1..Len(res.checks) :
          /\ res.checks[i].ctx = res.entered[i]
          /\ \/ CheckPassed(res.checks[i])
             \/ /\ i = Len(res.checks)
                /\ pc = "failed" /\ res.st = "InvalidData"
                /\ res.label = res.checks[i].ctx
    /\ pc = "loaded" =>
          /\ Len(res.checks) = Len(res.entered)
          /\ \A i \in 1..Len(res.checks) : CheckPassed(res.checks[i])

\* a load that passed two boundaries and failed at the third
C2_Witness ==
    /\ pc = "failed" /\ res.label = "FullDirectoryIndex"
    /\ Len(res.checks) = 3
    /\ CheckPassed(res.checks[1]) /\ CheckPassed(res.checks[2])
    /\ ~CheckPassed(res.checks[3])

\* C3: a file with one byte of a verified region changed fails to load with
\* InvalidData labelled with that region
C3_MutationNamesRegion ==
    (orig.mode = "mutated" /\ pc \in {"loaded", "failed"}) =>
        (pc = "failed" /\ res.st = "InvalidData" /\ res.label = orig.region)

(***************************************************************************)
(* PakIndexV2::add.  A u64 hash is its 8 bytes, least significant first;   *)
(* as a key of path_hash_index it is stored most significant first.  Names *)
(* are ASCII.                                                              *)
(***************************************************************************)
\* a ^ b
RECURSIVE BitXor(_, _)
BitXor(a, b) ==
    IF a = 0 THEN b
    ELSE IF b = 0 THEN a
    ELSE ((a + b) % 2) + 2 * BitXor(a \div 2, b \div 2)

\* u64::wrapping_add, byte by byte from byte i with carry c
RECURSIVE AddBytes(_, _, _, _, _)
AddBytes(a, b, i, c, acc) ==
    IF i > 8 THEN acc
    ELSE AddBytes(a, b, i + 1, (a[i] + b[i] + c) \div 256, Append(acc, (a[i] + b[i] + c) % 256))

wrapping_add(a, b) == AddBytes(a, b, 1, 0, <<>>)

\* the products that make byte k of a * b
RECURSIVE MulColumn(_, _, _, _)
MulColumn(a, b, k, i) ==
    IF i > k THEN 0 ELSE a[i] * b[k + 1 - i] + MulColumn(a, b, k, i + 1)

\* u64::wrapping_mul, byte by byte from byte k with carry c
RECURSIVE MulBytes(_, _, _, _, _)
MulBytes(a, b, k, c, acc) ==
    IF k > 8 THEN acc
    ELSE Let(MulColumn(a, b, k, 1) + c, LAMBDA t :
             MulBytes(a, b, k + 1, t \div 256, Append(acc, t % 256)))

wrapping_mul(a, b) == MulBytes(a, b, 1, 0, <<>>)

\* 0xcbf29ce484222325 and 0x00000100000001b3
FNV_BASIS == <<37, 35, 34, 132, 228, 156, 242, 203>>
FNV_PRIME == <<179, 1, 0, 0, 0, 1, 0, 0>>

\* the loop of fnv64 and legacy_fnv64 from byte i of s
RECURSIVE FnvFrom(_, _, _, _)
FnvFrom(s, i, h, prime) ==
    IF i > Len(s) THEN h
    ELSE Let(wrapping_mul([h EXCEPT ![1] = BitXor(@, s[i])], prime), LAMBDA h2 :
             FnvFrom(s, i + 1, h2, prime))

\* fnv64: OFFSET is the basis, PRIME the prime
fnv64(s, seed) == FnvFrom(s, 1, wrapping_add(FNV_BASIS, seed), FNV_PRIME)

\* legacy_fnv64: OFFSET is the prime, PRIME the basis
legacy_fnv64(s, seed) == FnvFrom(s, 1, wrapping_add(FNV_PRIME, seed), FNV_BASIS)

\* str::to_lowercase
to_lowercase(s) == [i \in 1..Len(s) |-> IF s[i] >= 65 /\ s[i] <= 90 THEN s[i] + 32 ELSE s[i]]

\* str::rsplit_once('/')
rsplit_once(s) ==
    LET at == {i \in 1..Len(s) : s[i] = 47}
    IN IF at = {} THEN [found |-> FALSE, dir |-> <<>>, leaf |-> s]
       ELSE LET k == CHOOSE i \in at : \A j \in at : j <= i
            IN [found |-> TRUE, dir |-> SubSeq(s, 1, k - 1), leaf |-> SubSeq(s, k + 1, Len(s))]

\* BTreeMap / HashMap lookups
MapHas(m, k) == \E i \in 1..Len(m) : m[i].k = k

MapGet(m, k, default) ==
    IF MapHas(m, k) THEN m[CHOOSE i \in 1..Len(m) : m[i].k = k].v ELSE default

\* io::Write for a Cursor at position 0 over the Vec old: bs overwrites its
\* beginning and extends it if longer
CursorWrite(old, bs) == bs \o SubSeq(old, Len(bs) + 1, Len(old))

\* PakIndexV2::add: loc is the raw location; on an error self is as add left it
V2Add(self, name, e, v) ==
    Let(encode_entry(Ok(ArchiveWriter(<<>>)), e, v), LAMBDA r :
    LET offset == Len(self.encoded_pak_entries)
        encoded == IF r.st = "ok" THEN r.v ELSE FALSE
        location == IF encoded THEN from_offset(offset) ELSE from_index(Len(self.files))
    IN
    Let(IF encoded
        THEN [self EXCEPT
                !.encoded_pak_entries = CursorWrite(@, r.ar.bytes),
                !.decoded_pak_entries = MapInsert(@, ToLe(offset, 4), e)]
        ELSE [self EXCEPT !.files = Append(@, e)], LAMBDA s1 :
    Let(IF v >= Fnv64BugFix THEN fnv64(to_lowercase(name), ToLe(self.path_hash_seed, 8))
        ELSE legacy_fnv64(to_lowercase(name), ToLe(self.path_hash_seed, 8)), LAMBDA hash :
    Let(IF self.has_path_hash_index
        THEN [s1 EXCEPT !.path_hash_index = MapInsert(@, Reverse(hash), location)]
        ELSE s1, LAMBDA s2 :
    LET parts == rsplit_once(name)
        fail(s) == [st |-> "InvalidInput", self |-> s, loc |-> location]
    IN IF r.st # "ok" THEN [st |-> r.st, self |-> self, loc |-> location]
       ELSE IF self.has_path_hash_index /\ MapHas(self.path_hash_index, Reverse(hash))
       THEN fail(s2)
       ELSE IF ~self.has_full_directory_index
       THEN [st |-> "ok", self |-> s2, loc |-> location]
       ELSE IF ~parts.found THEN fail(s2)
       ELSE [st |-> "ok",
             self |-> [s2 EXCEPT !.full_directory_index =
                          MapInsert(@, parts.dir,
                                    MapInsert(MapGet(@, parts.dir, <<>>), parts.leaf,
                                              location))],
             loc |-> location]))))

\* the loop of PakFileBuilder::finalize over take_entries: v2.add of each
\* entry, up to the first error
RECURSIVE V2AddAll(_, _, _, _)
V2AddAll(v2, files, i, v) ==
    IF i > Len(files) THEN [st |-> "ok", self |-> v2]
    ELSE Let(V2Add(v2, files[i].name, files[i].entry, v), LAMBDA r :
             IF r.st # "ok" THEN [st |-> r.st, self |-> r.self]
             ELSE V2AddAll(r.self, files, i + 1, v))

(***************************************************************************)
(* PakFileBuilder without a key: add, AssetWriter::write_all,              *)
(* AssetWriter::finalize and PakFileBuilder::finalize, writing to file;    *)
(* then load_any on the bytes written.  info and index are the builder's   *)
(* fields until finalize consumes it; writer is the open AssetWriter; orig *)
(* keeps what was added.                                                   *)
(***************************************************************************)
MaxWrites == 1

\* "dir/a", "b", "d/x" and "d/X"
BuildNames == {<<100, 105, 114, 47, 97>>, <<98>>, <<100, 47, 120>>, <<100, 47, 88>>}

\* three bytes, one byte, one cipher block, one block and a byte
BuildBufs ==
    {<<1, 2, 3>>, <<4>>, [i \in 1..16 |-> 16 + i], [i \in 1..17 |-> 32 + i]}

InitBuild ==
    /\ pc = "build"
    /\ version \in {v \in 1..Len(list) : v >= PathHashIndex}
    /\ info = PakInfoNew(version)
    /\ entry = NoEntry
    /\ index = PakIndexV1Default
    /\ pos = 0
    /\ key = FALSE
    /\ writer = NoWriter
    /\ sha1_ar = ArchiveLen
    /\ next = NoNext
    /\ file = <<>>
    /\ res = NoRes
    /\ orig = [mode |-> "built", version |-> version, added |-> <<>>]

\* Aes256BlockSize
BLOCK == 16

\* encrypt_blocks on one block: a stand-in for AES-256 in ECB mode under the
\* builder's key, a bijection on blocks that moves every byte
encrypt_blocks(block) == [i \in 1..Len(block) |-> (block[i] + 16 * i + 1) % 256]

\* Cipher::new
CipherNew == [buf |-> Zeros(BLOCK), pending |-> 0]

\* one turn of the loop of AssetWriter::write_all with a cipher, and the turns
\* after it.  copy_from_slice panics when buf does not fill the rest of the
\* block; pending is not reset after a block, so with pending = BLOCK a turn
\* takes nothing from buf, emits the block encrypted once more, and the loop
\* does not end: "diverges", out being what was written before the first
\* such turn
RECURSIVE CipherWrite(_, _, _)
CipherWrite(c, buf, out) ==
    IF Len(buf) = 0 THEN [st |-> "ok", cipher |-> c, out |-> out]
    ELSE IF c.pending = BLOCK THEN [st |-> "diverges", cipher |-> c, out |-> out]
    ELSE IF Len(buf) < BLOCK - c.pending THEN [st |-> "panic", cipher |-> c, out |-> out]
    ELSE Let(SubSeq(c.buf, 1, c.pending) \o SubSeq(buf, 1, BLOCK - c.pending), LAMBDA filled :
         CipherWrite([buf |-> encrypt_blocks(filled), pending |-> BLOCK],
                     SubSeq(buf, BLOCK - c.pending + 1, Len(buf)),
                     out \o encrypt_blocks(filled)))

\* the closing block of AssetWriter::finalize with a cipher: the bytes emitted
CipherClose(c) ==
    IF c.pending > 0
    THEN encrypt_blocks(SubSeq(c.buf, 1, c.pending) \o Zeros(BLOCK - c.pending))
    ELSE <<>>

\* an AssetWriter as add and import make it; given is what the caller wrote so
\* far, tee what reached the ArchiveLenSha1
UnplacedWriter(name, e, import, at) ==
    [open |-> TRUE, name |-> name, entry |-> e, import |-> import,
     cipher |-> CipherNew, tee |-> <<>>, given |-> <<>>, writes |-> 0]

NewWriter(name, e, import, at) ==
    [open |-> TRUE, name |-> name, entry |-> [e EXCEPT !.offset = at], import |-> import,
     cipher |-> CipherNew, tee |-> <<>>, given |-> <<>>, writes |-> 0]

\* assets begin at positions up to this one: a failed import leaves its bytes
\* in the output and no entry in the index
MaxStartAt == 3

\* the names and buffers a caller passes: fewer where holes and deleted
\* records are mixed in
AddNames == IF orig.mode = "plain" THEN {<<100, 105, 114, 47, 97>>, <<98>>} ELSE BuildNames

WriteBufs == IF orig.mode = "plain" THEN {<<4>>, [i \in 1..17 |-> 32 + i]} ELSE BuildBufs

\* PakFileBuilder::add
BuildAdd ==
    /\ pc = "build"
    /\ ~writer.open
    /\ Len(index.files) < MaxFiles
    /\ pos <= MaxStartAt
    /\ \E name \in AddNames : writer' = NewWriter(name, PakEntryDefault, FALSE, pos)
    /\ res' = [op |-> "add", st |-> "ok"]
    /\ UNCHANGED <<pc, version, info, entry, index, pos, key, loaderVars, file, orig>>

\* AssetWriter::write_all
BuildWrite ==
    /\ pc = "build"
    /\ writer.open
    /\ writer.writes < MaxWrites
    /\ \E buf \in WriteBufs :
          \E r \in {IF key THEN CipherWrite(writer.cipher, buf, <<>>)
                     ELSE [st |-> "ok", cipher |-> writer.cipher, out |-> buf]} :
             /\ file' = file \o r.out
             /\ pos' = pos + Len(r.out)
             /\ writer' = [writer EXCEPT !.tee = @ \o r.out, !.given = @ \o buf,
                                         !.writes = @ + 1, !.cipher = r.cipher,
                                         !.entry.uncompressed_size = @ + Len(r.out)]
             /\ pc' = IF r.st = "ok" THEN pc ELSE r.st
             /\ res' = [op |-> "write_all", st |-> r.st]
    /\ UNCHANGED <<version, info, entry, index, key, loaderVars, orig>>

\* the import checks of AssetWriter::finalize
size_mismatch(e, size) == e.size # size

hash_unchecked(e, hash) == FALSE

hash_mismatch(e, hash) == e.hash # hash

\* AssetWriter::finalize; the writer is consumed whatever the result
AssetFinalize ==
    /\ pc = "build"
    /\ writer.open
    /\ \E last \in {IF key THEN CipherClose(writer.cipher) ELSE <<>>} :
       \E c \in {[len |-> Len(writer.tee \o last), sha1 |-> Sha1(writer.tee \o last)]} :
       \E e \in {IF writer.import
                  THEN [writer.entry EXCEPT !.uncompressed_size = @ + Len(last)]
                  ELSE [writer.entry EXCEPT !.uncompressed_size = @ + Len(last),
                                            !.hash = c.sha1, !.size = c.len]} :
          /\ file' = file \o last
          /\ pos' = pos + Len(last)
          /\ IF writer.import /\ (size_mismatch(e, c.len) \/ hash_mismatch(e, c.sha1))
             THEN /\ res' = [op |-> "asset", st |-> "InvalidInput"]
                  /\ UNCHANGED <<index, entry, orig>>
             ELSE /\ res' = [op |-> "asset", st |-> "ok"]
                  /\ index' = V1AddEntry(index, writer.name, e)
                  /\ entry' = e
                  /\ orig' = [orig EXCEPT !.added = Append(@, [name |-> writer.name,
                                                               bytes |-> writer.given])]
    /\ writer' = NoWriter
    /\ UNCHANGED <<pc, version, info, key, loaderVars>>

\* the index of the PakFile that PakFileBuilder::finalize returns: a
\* PakIndexV2::default() filled by add from version PathHashIndex on, else the
\* builder's own index
pak_index(idx, v) ==
    IF v >= PathHashIndex THEN V2AddAll(PakIndexV2Default, idx.files, 1, v)
    ELSE [st |-> "ok", self |-> idx]

\* PakFileBuilder::finalize: the index and the trailer it writes, the index of
\* the PakFile it returns, its error if any
finalize(inf, idx, at, bytes) ==
    IF inf.index_is_frozen
    THEN [st |-> "Other", info |-> inf, bytes |-> bytes, index |-> idx]
    ELSE Let(IndexV1SerDe(idx, ArchiveWriter(bytes), inf.version), LAMBDA r :
         IF r.st # "ok" THEN [st |-> r.st, info |-> inf, bytes |-> r.ar.bytes, index |-> idx]
         ELSE Let(len_sha1(r.ar), LAMBDA c :
              Let([inf EXCEPT !.index_offset = at, !.index_size = c.len, !.hash = c.sha1],
                  LAMBDA i2 :
              Let(InfoSerDe(i2, ArchiveWriter(r.ar.bytes)), LAMBDA w :
                  IF w.st # "ok"
                  THEN [st |-> w.st, info |-> w.self, bytes |-> w.ar.bytes, index |-> idx]
                  ELSE Let(pak_index(idx, inf.version), LAMBDA p :
                       [st |-> p.st, info |-> w.self, bytes |-> w.ar.bytes,
                        index |-> p.self])))))

\* PakFileBuilder::finalize; index becomes the index of the returned PakFile,
\* and the bytes written are then handed to load_any
BuildFinalize ==
    /\ pc = "build"
    /\ ~writer.open
    /\ \E r \in {finalize(info, index, pos, file)} :
          /\ file' = r.bytes
          /\ info' = r.info
          /\ index' = r.index
          /\ pc' = IF r.st = "ok" THEN "probe" ELSE "failed"
          /\ res' = [NoLoad EXCEPT !.op = IF r.st = "ok" THEN "load_any" ELSE "finalize",
                                   !.st = r.st]
    /\ version' = ProbeOrder[1]
    /\ UNCHANGED <<entry, builderVars, loaderVars, orig>>

NextBuild == BuildAdd \/ BuildWrite \/ AssetFinalize \/ BuildFinalize \/ Probe \/ LoadIndex

SpecBuild == InitBuild /\ [][NextBuild]_vars

\* the names of a loaded PakIndexV2 with their locations: full_entries
full_entries(idx) ==
    UNION {{[name |-> idx.full_directory_index[i].k \o <<47>>
                          \o idx.full_directory_index[i].v[j].k,
             loc |-> LocationGet(idx.full_directory_index[i].v[j].v)] :
               j \in 1..Len(idx.full_directory_index[i].v)} :
           i \in 1..Len(idx.full_directory_index)}

\* the entries a location of a loaded PakIndexV2 stands for: none for Deleted
EntriesAt(idx, loc) ==
    IF loc.kind = "Offset"
    THEN {idx.decoded_pak_entries[i].v :
             i \in {j \in 1..Len(idx.decoded_pak_entries) :
                       idx.decoded_pak_entries[j].k = ToLe(loc.at, 4)}}
    ELSE IF loc.kind = "Index" /\ loc.at < Len(idx.files) THEN {idx.files[loc.at + 1]}
    ELSE {}

\* C1: the bytes a PakFileBuilder of a version >= PathHashIndex wrote, without
\* encryption, load with load_any, and the loaded index has exactly the names
\* added, each with the size and the SHA1 of the payload written for it
C1_BuildThenLoad ==
    (orig.mode = "built" /\ res.op = "load_any" /\ pc \in {"loaded", "failed"}) =>
        /\ pc = "loaded"
        /\ {e.name : e \in full_entries(index)}
              = {orig.added[i].name : i \in 1..Len(orig.added)}
        /\ \A e \in full_entries(index) :
              \E i \in 1..Len(orig.added) :
                 /\ orig.added[i].name = e.name
                 /\ \A j \in (i + 1)..Len(orig.added) : orig.added[j].name # e.name
                 /\ EntriesAt(index, e.loc) # {}
                 /\ \A x \in EntriesAt(index, e.loc) :
                       x.size = Len(orig.added[i].bytes) /\ x.hash = Sha1(orig.added[i].bytes)

\* the raw location that path_hash_index gives for a name, as a set
HashLocations(idx, name, v) ==
    LET seed == ToLe(idx.path_hash_seed, 8)
        hash == IF v >= Fnv64BugFix THEN fnv64(to_lowercase(name), seed)
                ELSE legacy_fnv64(to_lowercase(name), seed)
    IN {idx.path_hash_index[i].v :
           i \in {j \in 1..Len(idx.path_hash_index) :
                     idx.path_hash_index[j].k = Reverse(hash)}}

\* the raw location that full_directory_index gives for a name, as a set
DirLocations(idx, name) ==
    LET parts == rsplit_once(name)
    IN IF ~parts.found THEN {}
       ELSE UNION {{idx.full_directory_index[i].v[j].v :
                       j \in {k \in 1..Len(idx.full_directory_index[i].v) :
                                 idx.full_directory_index[i].v[k].k = parts.leaf}} :
                   i \in {k \in 1..Len(idx.full_directory_index) :
                             idx.full_directory_index[k].k = parts.dir}}

\* C11: the index of the PakFile that finalize returns at a version >=
\* PathHashIndex has one path_hash_index entry per added name, and
\* full_directory_index gives for the directory and the leaf of every added
\* name the location of an entry of that name's payload
C11_FinalizeFillsMaps ==
    (orig.mode = "built" /\ pc = "probe" /\ Len(res.tried) = 0) =>
        /\ Len(index.path_hash_index)
              = Cardinality({orig.added[i].name : i \in 1..Len(orig.added)})
        /\ \A i \in 1..Len(orig.added) :
              /\ HashLocations(index, orig.added[i].name, orig.version) # {}
              /\ rsplit_once(orig.added[i].name).found =>
                    \E x \in DirLocations(index, orig.added[i].name) :
                       \E e \in EntriesAt(index, LocationGet(x)) :
                          \E j \in 1..Len(orig.added) :
                             /\ orig.added[j].name = orig.added[i].name
                             /\ e.size = Len(orig.added[j].bytes)
                             /\ e.hash = Sha1(orig.added[j].bytes)

\* the seeded path hash of a name, as PakIndexV2::add computes it
path_hash(name, seed, v) ==
    IF v >= Fnv64BugFix THEN fnv64(to_lowercase(name), ToLe(seed, 8))
    ELSE legacy_fnv64(to_lowercase(name), ToLe(seed, 8))

\* C12: a build at a version >= PathHashIndex in which two added names have
\* lowercased forms of the same path hash fails in finalize with InvalidInput
C12_CollisionRejected ==
    (/\ orig.mode = "built"
     /\ pc # "build"
     /\ \E i, j \in 1..Len(orig.added) :
           /\ i < j
           /\ orig.added[i].name # orig.added[j].name
           /\ path_hash(orig.added[i].name, 0, orig.version)
                 = path_hash(orig.added[j].name, 0, orig.version))
        => (res.op = "finalize" /\ res.st = "InvalidInput")

(***************************************************************************)
(* PakFileBuilder with or without a key: seek, pad, deleted, import, add,  *)
(* and the AssetWriter.  res tells the last call made and its result.      *)
(***************************************************************************)
\* the length of ZEROS in PakFileBuilder::seek
ZEROS_LEN == 4096

\* align_arbitrary
align_arbitrary(v, alignment) ==
    IF alignment = 0 THEN v ELSE ((v + alignment - 1) \div alignment) * alignment

\* the loop of PakFileBuilder::seek: the position reached and the sizes of the
\* write_all calls made
RECURSIVE SeekLoop(_, _, _)
SeekLoop(at, target, chunks) ==
    IF at < target
    THEN Let(IF target - at < ZEROS_LEN THEN target - at ELSE ZEROS_LEN, LAMBDA size :
             SeekLoop(at + size, target, Append(chunks, size)))
    ELSE [pos |-> at, chunks |-> chunks]

\* the bytes of the write_all calls of seek: &ZEROS[0..size] for each
RECURSIVE ZeroChunks(_, _)
ZeroChunks(chunks, i) ==
    IF i > Len(chunks) THEN <<>> ELSE Zeros(chunks[i]) \o ZeroChunks(chunks, i + 1)

\* the check that closes PakFileBuilder::seek
seek_unchecked(at, target) == FALSE

seek_invalid(at, target) == at # target

\* PakFileBuilder::seek from position at
seek(at, target) ==
    Let(SeekLoop(at, target, <<>>), LAMBDA r :
        [st |-> IF seek_invalid(r.pos, target) THEN "InvalidInput" ELSE "ok",
         pos |-> r.pos, chunks |-> r.chunks])

SeekTargets == {0, 3, 4099, 8195}

Alignments == {0, 16}

\* the targets a caller seeks to: short holes where assets are mixed in
Targets == IF orig.mode = "plain" THEN {0, 3, 40} ELSE SeekTargets

\* PakFileBuilder::seek
BuildSeek ==
    /\ pc = "build"
    /\ ~writer.open
    /\ \E target \in Targets :
       \E r \in {seek(pos, target)} :
          /\ file' = file \o ZeroChunks(r.chunks, 1)
          /\ pos' = r.pos
          /\ res' = [op |-> "seek", st |-> r.st, target |-> target, chunks |-> r.chunks]
    /\ UNCHANGED <<pc, version, info, entry, index, key, writer, loaderVars, orig>>

\* PakFileBuilder::pad
BuildPad ==
    /\ pc = "build"
    /\ ~writer.open
    /\ \E alignment \in Alignments :
       \E target \in {align_arbitrary(pos, alignment)} :
       \E r \in {seek(pos, target)} :
          /\ file' = file \o ZeroChunks(r.chunks, 1)
          /\ pos' = r.pos
          /\ res' = [op |-> "pad", st |-> r.st, target |-> target, chunks |-> r.chunks]
    /\ UNCHANGED <<pc, version, info, entry, index, key, writer, loaderVars, orig>>

\* the entry of PakFileBuilder::deleted
unflagged_entry(at) == [PakEntryDefault EXCEPT !.offset = at]

deleted_entry(at) == [PakEntryDefault EXCEPT !.offset = at, !.flags = FLAG_DELETED]

\* "dir/a" and "b"
DeletedNames == {<<100, 105, 114, 47, 97>>, <<98>>}

\* PakFileBuilder::deleted
BuildDeleted ==
    /\ pc = "build"
    /\ ~writer.open
    /\ Len(index.files) < MaxFiles
    /\ \E name \in DeletedNames :
          /\ index' = V1AddEntry(index, name, deleted_entry(pos))
          /\ res' = [op |-> "deleted", st |-> "ok", name |-> name]
    /\ UNCHANGED <<pc, version, info, entry, builderVars, loaderVars, file, orig>>

\* the entries a caller hands to import: the size and hash of the bytes
\* 01 02 03, the same with another hash, with another size, and the default
ImportEntries ==
    {[PakEntryDefault EXCEPT !.size = 3, !.hash = Sha1(<<1, 2, 3>>)],
     [PakEntryDefault EXCEPT !.size = 3, !.hash = Sha1(<<4>>)],
     [PakEntryDefault EXCEPT !.size = 1, !.hash = Sha1(<<1, 2, 3>>)],
     PakEntryDefault}

\* "b"
ImportNames == {<<98>>}

\* PakFileBuilder::import
BuildImport ==
    /\ pc = "build"
    /\ ~writer.open
    /\ Len(index.files) < MaxFiles
    /\ pos <= MaxStartAt
    /\ \E name \in ImportNames :
       \E e \in ImportEntries : writer' = NewWriter(name, e, TRUE, pos)
    /\ res' = [op |-> "import", st |-> "ok"]
    /\ UNCHANGED <<pc, version, info, entry, index, pos, key, loaderVars, file, orig>>

\* a builder of the newest version with nothing added; the version plays no
\* part in seek, pad, deleted or the AssetWriter
InitSeek ==
    /\ pc = "build"
    /\ version = Fnv64BugFix
    /\ info = PakInfoNew(version)
    /\ entry = NoEntry
    /\ index = PakIndexV1Default
    /\ pos = 0
    /\ key = FALSE
    /\ writer = NoWriter
    /\ sha1_ar = ArchiveLen
    /\ next = NoNext
    /\ file = <<>>
    /\ res = NoRes
    /\ orig = [mode |-> "seek", version |-> version, added |-> <<>>]

NextSeek == BuildSeek \/ BuildPad \/ BuildDeleted

SpecSeek == InitSeek /\ [][NextSeek]_vars

\* the same builder, with or without a key (PakFileBuilder::encrypted)
InitAsset ==
    /\ pc = "build"
    /\ version = Fnv64BugFix
    /\ info = PakInfoNew(version)
    /\ entry = NoEntry
    /\ index = PakIndexV1Default
    /\ pos = 0
    /\ key \in BOOLEAN
    /\ writer = NoWriter
    /\ sha1_ar = ArchiveLen
    /\ next = NoNext
    /\ file = <<>>
    /\ res = NoRes
    /\ orig = [mode |-> "assets", version |-> version, added |-> <<>>]

NextAsset == BuildImport \/ BuildAdd \/ BuildWrite \/ AssetFinalize

SpecAsset == InitAsset /\ [][NextAsset]_vars

\* C13: seek to a target beyond pos writes target - pos zero bytes in calls of
\* at most 4096 bytes and leaves pos at the target; seek to pos writes nothing
\* and succeeds; seek to a target before pos fails with InvalidInput, writes
\* nothing and leaves pos as it was
C13_Seek ==
    [][res'.op = "seek" =>
          /\ res'.target > pos =>
                /\ res'.st = "ok"
                /\ file' = file \o Zeros(res'.target - pos)
                /\ pos' = res'.target
                /\ \A i \in 1..Len(res'.chunks) :
                      res'.chunks[i] > 0 /\ res'.chunks[i] <= 4096
          /\ res'.target = pos =>
                res'.st = "ok" /\ file' = file /\ pos' = pos /\ res'.chunks = <<>>
          /\ res'.target < pos =>
                res'.st = "InvalidInput" /\ file' = file /\ pos' = pos
                   /\ res'.chunks = <<>>]_vars

C13_Witness ==
    /\ res.op = "seek"
    /\ res.st = "ok"
    /\ res.chunks = <<4096, 4096, 3>>
    /\ pos = 8195

\* C16: deleted(name) appends to the index one entry for name with the DELETED
\* flag and size 0, writes nothing and leaves pos as it was
C16_Deleted ==
    [][res'.op = "deleted" =>
          /\ Len(index'.files) = Len(index.files) + 1
          /\ SubSeq(index'.files, 1, Len(index.files)) = index.files
          /\ index'.files[Len(index'.files)].name = res'.name
          /\ (index'.files[Len(index'.files)].entry.flags \div FLAG_DELETED) % 2 = 1
          /\ index'.files[Len(index'.files)].entry.size = 0
          /\ file' = file
          /\ pos' = pos]_vars

C16_Witness ==
    /\ res.op = "deleted"
    /\ pos = 8195
    /\ Len(index.files) = 2
    /\ index.files[2].entry.offset = 8195

\* ECB over the payload padded with zeros to whole blocks, each block
\* encrypted once
RECURSIVE EcbPadded(_)
EcbPadded(bs) ==
    IF Len(bs) = 0 THEN <<>>
    ELSE IF Len(bs) < BLOCK THEN encrypt_blocks(bs \o Zeros(BLOCK - Len(bs)))
    ELSE encrypt_blocks(SubSeq(bs, 1, BLOCK)) \o EcbPadded(SubSeq(bs, BLOCK + 1, Len(bs)))

\* C14: with a key, every write_all returns, and after AssetWriter::finalize
\* the bytes emitted for the asset are its payload padded with zeros to whole
\* blocks, each block encrypted once: ceil(n / 16) * 16 bytes for a payload of
\* n bytes, and pos has advanced by as much
C14_CipherBlocks ==
    [][(key /\ writer.open /\ res'.op \in {"write_all", "asset"}) =>
          /\ pc' = "build"
          /\ res'.op = "asset" =>
                /\ SubSeq(file', writer.entry.offset + 1, Len(file'))
                      = EcbPadded(writer.given)
                /\ Len(file') - writer.entry.offset
                      = ((Len(writer.given) + 15) \div 16) * 16
                /\ pos' - writer.entry.offset = Len(file') - writer.entry.offset]_vars

\* C15: AssetWriter::finalize of an import succeeds exactly if the bytes that
\* went through the writer have the size and the SHA1 of the entry given, and
\* otherwise fails with InvalidInput and leaves the index as it was; for an add
\* it gives the entry the size and the SHA1 of these bytes
C15_ImportChecked ==
    [][res'.op = "asset" =>
          LET written == SubSeq(file', writer.entry.offset + 1, Len(file'))
              matches == writer.entry.size = Len(written)
                            /\ writer.entry.hash = Sha1(written)
              last == index'.files[Len(index'.files)]
          IN IF writer.import /\ ~matches
             THEN res'.st = "InvalidInput" /\ index' = index
             ELSE /\ res'.st = "ok"
                  /\ Len(index'.files) = Len(index.files) + 1
                  /\ SubSeq(index'.files, 1, Len(index.files)) = index.files
                  /\ last.name = writer.name
                  /\ last.entry.size = Len(written)
                  /\ last.entry.hash = Sha1(written)]_vars

C15_Witness ==
    /\ res.op = "asset"
    /\ res.st = "InvalidInput"
    /\ Len(file) = 3
    /\ index.files = <<>>

\* C17: once a trailer with index_is_frozen set is accepted, the load fails
\* with InvalidData (frozen index) with no byte of the index read, no region
\* entered, no index made, and never ends as loaded
C17_FrozenRejected ==
    (orig.mode \in {"valid", "mutated", "flagged", "trailer"}
     /\ info.index_is_frozen
     /\ pc \notin {"probe", "load_index"}) =>
        /\ pc = "failed"
        /\ res.st = "InvalidData"
        /\ res.label = "frozen"
        /\ res.entered = <<>>
        /\ res.checks = <<>>
        /\ index = <<>>
        /\ sha1_ar.tee = <<>>
        /\ sha1_ar.at = info.index_offset

C17_Witness ==
    /\ orig.mode = "flagged"
    /\ info.index_is_frozen
    /\ info.version = FrozenIndex
    /\ pc = "failed"
    /\ res.label = "frozen"

(***************************************************************************)
(* impl Archivable for String alone: a string is encoded and the bytes are *)
(* decoded ("string"), or bytes made of a length and as many bytes are     *)
(* decoded ("wire").                                                       *)
(***************************************************************************)
MaxStr == 3

\* NUL, "/", "a", "b"
StrBytes == {0, 47, 97, 98}

RECURSIVE StrOfLen(_)
StrOfLen(n) ==
    IF n = 0 THEN {<<>>}
    ELSE {Append(s, b) : s \in StrOfLen(n - 1), b \in StrBytes}

Strs == UNION {StrOfLen(n) : n \in 0..MaxStr}

InitString ==
    /\ version = Fnv64BugFix
    /\ info = PakInfoNew(version)
    /\ entry = NoEntry
    /\ index = PakIndexV1Default
    /\ pos = 0
    /\ key = FALSE
    /\ writer = NoWriter
    /\ sha1_ar = ArchiveLen
    /\ next = NoNext
    /\ res = NoRes
    /\ \E s \in Strs :
          \/ /\ pc = "string"
             /\ file = <<>>
             /\ orig = [mode |-> "string", value |-> s]
          \/ /\ pc = "encoded"
             /\ file = ToLe(Len(s), 4) \o s
             /\ orig = [mode |-> "wire", value |-> s]

\* String::ser_de on a writer
StrEncode ==
    /\ pc = "string"
    /\ \E r \in {SerDeString(Ok(ArchiveWriter(<<>>)), orig.value)} :
          /\ file' = r.ar.bytes
          /\ res' = [op |-> "encode", st |-> r.st, value |-> r.v]
          /\ pc' = IF r.st = "ok" THEN "encoded" ELSE "failed"
    /\ UNCHANGED <<version, info, entry, index, builderVars, loaderVars, orig>>

\* String::ser_de on a reader, into an empty String
StrDecode ==
    /\ pc = "encoded"
    /\ \E r \in {SerDeString(Ok(ArchiveReader(file, 0)), <<>>)} :
          /\ res' = [op |-> "decode", st |-> r.st,
                     value |-> IF r.st = "ok" THEN r.v ELSE <<>>]
          /\ pos' = r.ar.at
          /\ pc' = IF r.st = "ok" THEN "decoded" ELSE "failed"
    /\ UNCHANGED <<version, info, entry, index, key, writer, loaderVars, file, orig>>

NextString == StrEncode \/ StrDecode

SpecString == InitString /\ [][NextString]_vars

\* C18: encoding s gives the u32 len(s) + 1, the bytes of s and one 0 byte;
\* decoding a length L and L bytes fails if the last byte is not 0 and gives
\* the first L - 1 bytes otherwise; decoding what encoding s gave gives s
C18_StringRoundTrip ==
    /\ (orig.mode = "string" /\ pc # "string") =>
          /\ pc # "failed"
          /\ file = ToLe(Len(orig.value) + 1, 4) \o orig.value \o <<0>>
          /\ pc = "decoded" => res.value = orig.value
    /\ (orig.mode = "wire" /\ pc # "encoded" /\ Len(orig.value) > 0) =>
          IF orig.value[Len(orig.value)] # 0 THEN pc = "failed"
          ELSE /\ pc = "decoded"
               /\ res.value = SubSeq(orig.value, 1, Len(orig.value) - 1)
               /\ pos = 4 + Len(orig.value)

(***************************************************************************)
(* RawPakEntryLocation alone: a raw i32, given ("raw") or made by          *)
(* from_offset ("offset") or from_index ("index"), is written, read back,  *)
(* and get is taken of it.                                                 *)
(***************************************************************************)
MaxLoc == 3

\* i32::MIN and i32::MAX
MIN_I32 == (0 - Huge) - 1
MAX_I32 == Huge

\* raw values at the ends of the ranges of get
Raws == UNION {{MIN_I32 + k, (0 - 1) - k, k, MAX_I32 - k} : k \in 0..MaxLoc}

\* offsets and indices at the ends of what an i32 holds
Places == UNION {{k, MAX_I32 - k} : k \in 0..MaxLoc}

InitLocation ==
    /\ version = Fnv64BugFix
    /\ info = PakInfoNew(version)
    /\ entry = NoEntry
    /\ index = PakIndexV2Default
    /\ pos = 0
    /\ key = FALSE
    /\ writer = NoWriter
    /\ sha1_ar = ArchiveLen
    /\ next = NoNext
    /\ file = <<>>
    /\ \/ \E x \in Raws :
             /\ pc = "raw"
             /\ orig = [mode |-> "raw", value |-> x]
             /\ res = [op |-> "raw", st |-> "ok", raw |-> x]
       \/ \E n \in Places, mode \in {"offset", "index"} :
             /\ pc = "place"
             /\ orig = [mode |-> mode, value |-> n]
             /\ res = NoRes

\* RawPakEntryLocation::from_offset, RawPakEntryLocation::from_index
LocFrom ==
    /\ pc = "place"
    /\ res' = [op |-> "from", st |-> "ok",
               raw |-> IF orig.mode = "offset" THEN from_offset(orig.value)
                       ELSE from_index(orig.value)]
    /\ pc' = "raw"
    /\ UNCHANGED <<version, info, entry, index, builderVars, loaderVars, file, orig>>

\* RawPakEntryLocation::ser_de on a writer
LocWrite ==
    /\ pc = "raw"
    /\ \E r \in {SerDeI32(Ok(ArchiveWriter(<<>>)), res.raw)} :
          /\ file' = r.ar.bytes
          /\ pc' = IF r.st = "ok" THEN "wire" ELSE "failed"
    /\ UNCHANGED <<version, info, entry, index, builderVars, loaderVars, res, orig>>

\* RawPakEntryLocation::ser_de on a reader, then get
LocRead ==
    /\ pc = "wire"
    /\ \E r \in {SerDeI32(Ok(ArchiveReader(file, 0)), 0)} :
          /\ res' = IF r.st = "ok"
                    THEN [op |-> "get", st |-> "ok", raw |-> r.v, loc |-> LocationGet(r.v)]
                    ELSE [op |-> "get", st |-> r.st]
          /\ pc' = IF r.st = "ok" THEN "located" ELSE "failed"
    /\ UNCHANGED <<version, info, entry, index, builderVars, loaderVars, file, orig>>

NextLocation == LocFrom \/ LocWrite \/ LocRead

SpecLocation == InitLocation /\ [][NextLocation]_vars

\* C19: a raw value in 0 ..= i32::MAX - 1 is Offset(raw), one in
\* i32::MIN + 1 ..= -1 is Index(-raw - 1), i32::MIN is Deleted, also after the
\* value went over the wire; from_offset(o) gives Offset(o) and from_index(i)
\* gives Index(i) for the offsets and indices up to i32::MAX - 1
C19_LocationMapping ==
    /\ pc # "failed"
    /\ (pc = "located" /\ orig.mode = "raw") =>
          /\ res.raw = orig.value
          /\ (orig.value >= 0 /\ orig.value <= MAX_I32 - 1) =>
                res.loc = [kind |-> "Offset", at |-> orig.value]
          /\ (orig.value >= MIN_I32 + 1 /\ orig.value <= 0 - 1) =>
                res.loc = [kind |-> "Index", at |-> (0 - orig.value) - 1]
          /\ orig.value = MIN_I32 => res.loc.kind = "Deleted"
    /\ (pc = "located" /\ orig.mode = "offset" /\ orig.value <= MAX_I32 - 1) =>
          res.loc = [kind |-> "Offset", at |-> orig.value]
    /\ (pc = "located" /\ orig.mode = "index" /\ orig.value <= MAX_I32 - 1) =>
          res.loc = [kind |-> "Index", at |-> orig.value]

C19_Witness ==
    /\ pc = "located"
    /\ orig.mode = "index"
    /\ orig.value = MAX_I32 - 1
    /\ res.raw = MIN_I32 + 1
    /\ res.loc = [kind |-> "Index", at |-> MAX_I32 - 1]

(***************************************************************************)
(* Lengths: a trailer, an entry or a PakIndexV1 is measured with ser_de    *)
(* into an ArchiveLen (ser_de_len), and then encoded with ser_de into a    *)
(* writer.  ser_de_len takes the value by &mut, so the value encoded is    *)
(* the one ser_de_len left.                                                *)
(***************************************************************************)
\* PakIndexV1::ser_de into an ArchiveLen, unwrapped
IndexV1SerDeLen(self, v) ==
    Let(IndexV1SerDe(self, ArchiveLen, v), LAMBDA r :
        IF r.st = "ok" THEN [st |-> "ok", self |-> r.self, len |-> r.ar.len]
        ELSE [st |-> "panic", self |-> self, len |-> 0])

\* indices without files and with one file
LenIndexes ==
    {[PakIndexV1Default EXCEPT !.mount_point = mp] : mp \in MountPoints}
    \cup {V1AddEntry([PakIndexV1Default EXCEPT !.mount_point = mp], n, e) :
             mp \in MountPoints, n \in FileNames, e \in OddEntries}

InitLen ==
    /\ pc = "start"
    /\ version \in 1..Len(list)
    /\ pos = 0
    /\ key = FALSE
    /\ writer = NoWriter
    /\ sha1_ar = ArchiveLen
    /\ next = NoNext
    /\ file = <<>>
    /\ res = NoRes
    /\ \/ \E c \in InfoCases :
             /\ info = InfoOf(c, version)
             /\ entry = NoEntry
             /\ index = <<>>
             /\ orig = [mode |-> "info", value |-> info]
       \/ \E e \in EntryCases(version) :
             /\ info = PakInfoDefault
             /\ entry = e
             /\ index = <<>>
             /\ orig = [mode |-> "entry", value |-> e]
       \/ \E idx \in LenIndexes :
             /\ info = PakInfoDefault
             /\ entry = NoEntry
             /\ index = idx
             /\ orig = [mode |-> "index", value |-> idx]

\* ser_de_len of the value
LenMeasure ==
    /\ pc = "start"
    /\ \E r \in {IF orig.mode = "info" THEN InfoSerDeLen(info)
                 ELSE IF orig.mode = "entry" THEN EntrySerDeLen(entry, version)
                 ELSE IndexV1SerDeLen(index, version)} :
          /\ info' = IF orig.mode = "info" THEN r.self ELSE info
          /\ entry' = IF orig.mode = "entry" THEN r.self ELSE entry
          /\ index' = IF orig.mode = "index" THEN r.self ELSE index
          /\ res' = [op |-> "len", st |-> r.st, len |-> r.len]
          /\ pc' = IF r.st = "ok" THEN "measured" ELSE "panic"
    /\ UNCHANGED <<version, builderVars, loaderVars, file, orig>>

\* ser_de of the value into a writer
LenEncode ==
    /\ pc = "measured"
    /\ \E r \in {IF orig.mode = "info" THEN InfoSerDe(info, ArchiveWriter(<<>>))
                 ELSE IF orig.mode = "entry"
                 THEN EntrySerDe(entry, ArchiveWriter(<<>>), version)
                 ELSE IndexV1SerDe(index, ArchiveWriter(<<>>), version)} :
          /\ info' = IF orig.mode = "info" THEN r.self ELSE info
          /\ entry' = IF orig.mode = "entry" THEN r.self ELSE entry
          /\ index' = IF orig.mode = "index" THEN r.self ELSE index
          /\ file' = r.ar.bytes
          /\ res' = [op |-> "encode", st |-> r.st, len |-> res.len]
          /\ pc' = IF r.st = "ok" THEN "encoded" ELSE "failed"
    /\ UNCHANGED <<version, builderVars, loaderVars, orig>>

NextLen == LenMeasure \/ LenEncode

SpecLen == InitLen /\ [][NextLen]_vars

\* the bytes that encoding the value as it was given writes, as a set: none if
\* the encoding fails
BytesOf(mode, x, v) ==
    LET r == IF mode = "info" THEN InfoSerDe(x, ArchiveWriter(<<>>))
             ELSE IF mode = "entry" THEN EntrySerDe(x, ArchiveWriter(<<>>), v)
             ELSE IndexV1SerDe(x, ArchiveWriter(<<>>), v)
    IN IF r.st = "ok" THEN {r.ar.bytes} ELSE {}

\* C20: the length that ser_de_len gives for a trailer, an entry or an index
\* is the number of bytes that encoding it into a writer writes; a value is
\* measured without a panic exactly if encoding it succeeds
C20_LenIsBytesWritten ==
    /\ pc = "encoded" => res.len = Len(file)
    /\ pc \in {"measured", "encoded"} =>
          /\ BytesOf(orig.mode, orig.value, version) # {}
          /\ \A bs \in BytesOf(orig.mode, orig.value, version) : Len(bs) = res.len
    /\ pc = "panic" => BytesOf(orig.mode, orig.value, version) = {}
    /\ pc # "failed"

C20_Witness ==
    /\ pc = "encoded"
    /\ orig.mode = "index"
    /\ Len(orig.value.files) = 1
    /\ res.len = Len(file)
    /\ res.len > 50

(***************************************************************************)
(* The compression method table of an accepted trailer                     *)
(***************************************************************************)

\* de_pakinfo_versions returned Ok(info): the last trailer tried was accepted
Accepted ==
    /\ res.op = "load_any"
    /\ Len(res.tried) > 0
    /\ res.tried[Len(res.tried)].outcome = "ok"

\* the names that lie in the fixed-width buffer at the end of the file
StoredMethods(v) ==
    SplitMethods(SubSeq(file, Len(file) - MethodsBufferLen(v) + 1, Len(file)), 0, <<>>).names

\* C21: the trailer that the probe accepts has the method table "", Zlib,
\* Gzip, Oodle at a version below 8, and "" followed by the names of the
\* trailer's fixed-width buffer from version 8 on
C21_MethodTable ==
    Accepted =>
        IF info.version < FNameBasedCompressionMethod422
        THEN info.compression_methods = <<<<>>, Zlib, Gzip, Oodle>>
        ELSE info.compression_methods = <<<<>>>> \o StoredMethods(info.version)

(***************************************************************************)
(* PakFileBuilder without a key: assets, holes and deleted records         *)
(***************************************************************************)

\* a builder of the newest version with no key and nothing added
InitPlain ==
    /\ pc = "build"
    /\ version = Fnv64BugFix
    /\ info = PakInfoNew(version)
    /\ entry = NoEntry
    /\ index = PakIndexV1Default
    /\ pos = 0
    /\ key = FALSE
    /\ writer = NoWriter
    /\ sha1_ar = ArchiveLen
    /\ next = NoNext
    /\ file = <<>>
    /\ res = NoRes
    /\ orig = [mode |-> "plain", version |-> version, added |-> <<>>]

NextPlain ==
    BuildAdd \/ BuildWrite \/ AssetFinalize \/ BuildSeek \/ BuildPad \/ BuildDeleted

SpecPlain == InitPlain /\ [][NextPlain]_vars

\* the payload ranges [offset, offset + size) of the entries of an index are
\* pairwise disjoint and lie in order
RangesApart(files) ==
    \A i, j \in 1..Len(files) :
        i < j => files[i].entry.offset + files[i].entry.size <= files[j].entry.offset

\* C22: without a key, pos is the number of bytes emitted; an entry's offset
\* is pos as its writer was opened, its size and uncompressed_size the number
\* of bytes written through the writer; finalize and deleted append to the
\* index, whose payload ranges never overlap
C22_PlainLayout ==
    [][/\ pos' = Len(file')
       /\ res'.st = "ok" \/ res'.op \in {"seek", "pad"}
       /\ res'.op = "add" =>
             /\ writer'.open
             /\ writer'.entry.offset = pos
             /\ index' = index
       /\ res'.op = "write_all" =>
             /\ writer'.entry.offset = writer.entry.offset
             /\ file' = file \o SubSeq(writer'.given, Len(writer.given) + 1,
                                       Len(writer'.given))
             /\ index' = index
       /\ res'.op = "asset" =>
             /\ Len(index'.files) = Len(index.files) + 1
             /\ SubSeq(index'.files, 1, Len(index.files)) = index.files
             /\ LET f == index'.files[Len(index'.files)]
                IN /\ f.name = writer.name
                   /\ f.entry.offset = writer.entry.offset
                   /\ f.entry.size = Len(writer.given)
                   /\ f.entry.uncompressed_size = Len(writer.given)
                   /\ f.entry.offset + f.entry.size = pos'
                   /\ SubSeq(file', f.entry.offset + 1, pos') = writer.given
       /\ res'.op = "deleted" =>
             /\ Len(index'.files) = Len(index.files) + 1
             /\ SubSeq(index'.files, 1, Len(index.files)) = index.files
             /\ index'.files[Len(index'.files)].entry.offset = pos
             /\ index'.files[Len(index'.files)].entry.size = 0
       /\ res'.op \in {"seek", "pad"} => index' = index
       /\ RangesApart(index'.files)]_vars

\* two assets in the index, the second behind a hole after the first
C22_Witness ==
    /\ orig.mode = "plain"
    /\ ~writer.open
    /\ Len(index.files) = 2
    /\ index.files[1].entry.size = 1
    /\ index.files[2].entry.offset = 3
    /\ index.files[2].entry.size = 17
    /\ pos = 20
    /\ pos = Len(file)

(***************************************************************************)
(* PakFileBuilder::finalize at every version, and the load of its output   *)
(***************************************************************************)

\* a builder of any version, without a key
InitFinal ==
    /\ pc = "build"
    /\ version \in 1..Len(list)
    /\ info = PakInfoNew(version)
    /\ entry = NoEntry
    /\ index = PakIndexV1Default
    /\ pos = 0
    /\ key = FALSE
    /\ writer = NoWriter
    /\ sha1_ar = ArchiveLen
    /\ next = NoNext
    /\ file = <<>>
    /\ res = NoRes
    /\ orig = [mode |-> "final", version |-> version, added |-> <<>>]

NextFinal == BuildAdd \/ BuildWrite \/ AssetFinalize \/ BuildFinalize \/ Probe \/ LoadIndex

SpecFinal == InitFinal /\ [][NextFinal]_vars

\* the trailer that lies in the output behind the index, as a reader of the
\* builder's version decodes it
TrailerRead(bytes, at, v) == InfoSerDe(PakInfoNew(v), ArchiveReader(bytes, at))

\* the output holds, from at on, an index of the size and SHA1 that the
\* trailer behind it states, the trailer ends the output and states at
WrittenLayout(bytes, at, v) ==
    \E size \in 0..(Len(bytes) - at) :
        LET t == TrailerRead(bytes, at + size, v)
        IN /\ t.st = "ok"
           /\ t.ar.at = Len(bytes)
           /\ t.self.index_offset = at
           /\ t.self.index_size = size
           /\ t.self.hash = Sha1(SubSeq(bytes, at + 1, at + size))

\* C23: finalize writes the index at pos and the trailer as the last bytes;
\* the trailer's index_offset is that pos, its index_size and hash the length
\* and SHA1 of the index bytes written; and the load of the output reaches the
\* check of the region PakIndex and passes it
C23_FinalizeLayout ==
    [][/\ (pc = "build" /\ res'.op \in {"load_any", "finalize"}) =>
             /\ SubSeq(file', 1, pos) = file
             /\ info'.index_offset = pos
             /\ info'.index_size = Len(file') - pos - InfoLenOf(orig.version)
             /\ info'.hash = Sha1(SubSeq(file', pos + 1, pos + info'.index_size))
             /\ WrittenLayout(file', pos, orig.version)
       /\ (res'.op = "load_any" /\ pc' \in {"loaded", "failed"}) =>
             /\ Len(res'.checks) >= 1
             /\ res'.checks[1].ctx = "PakIndex"
             /\ CheckPassed(res'.checks[1])]_vars

(***************************************************************************)
(* Compact eligibility of entries with two or more compression blocks      *)
(***************************************************************************)

\* the field ranges of the compact form
FieldRanges(e) ==
    /\ e.compression_method_index < Pow2(6)
    /\ Len(e.compression_blocks) < Pow2(16)
    /\ \/ e.compression_block_size = e.uncompressed_size
       \/ e.compression_block_size \div Pow2(11) <= 63

\* block 0 starts at the full-form header length and every later block where
\* the block before it ends, rounded up to the alignment
Contiguous(e, v) ==
    LET blocks == e.compression_blocks
        alignment == IF is_encrypted(e) THEN AES_BLOCK_SIZE ELSE 1
    IN /\ blocks[1].compressed_start = EntrySerLen(e, v)
       /\ \A i \in 2..Len(blocks) :
             blocks[i].compressed_start
                = blocks[i - 1].compressed_start
                  + align(blocks[i - 1].compressed_end - blocks[i - 1].compressed_start,
                          alignment)

\* C25: an entry of two or more compression blocks is accepted by
\* encode_entry exactly if its fields are in range and its blocks are
\* contiguous from the header on; otherwise it is left for files
C25_BlocksContiguous ==
    (res.op = "encode_entry" /\ Len(orig.value.compression_blocks) >= 2) =>
        /\ res.st = "ok"
        /\ res.accepted <=> (FieldRanges(orig.value) /\ Contiguous(orig.value, version))

(***************************************************************************)
(* Files whose PathHashIndex region gives one location of any kind; the    *)
(* hashes and sizes recorded for the regions are those of the regions.     *)
(***************************************************************************)

\* the compact entries of the files: the encoding of FixEntry
FixBlob(v) == encode_entry(Ok(ArchiveWriter(<<>>)), FixEntry, v).ar.bytes

\* the PathHashIndex region with one hash at the raw location x
LocatedPathHash(x) ==
    ToLe(1, 4) \o <<9, 8, 7, 6, 5, 4, 3, 2>> \o ToLe(x, 4) \o ToLe(0, 4)

\* offsets at, inside, at the end of and behind the compact entries, indexes
\* into the empty files, and the deleted location
LocatedRaws(v) ==
    {from_offset(o) : o \in {0, 1, 4, 8, Len(FixBlob(v)) - 1, Len(FixBlob(v)),
                             Len(FixBlob(v)) + 1}}
    \cup {from_index(0), from_index(1), MIN_I32}

LocatedCases ==
    {[raw |-> x, version |-> v,
      file |-> FixFile(FixPartsWith(sh, v, LocatedPathHash(x)), v, FixPlain)] :
        x \in UNION {LocatedRaws(w) : w \in {PathHashIndex, Fnv64BugFix}},
        v \in {PathHashIndex, Fnv64BugFix},
        sh \in {[phi |-> "region", fdi |-> "region"], [phi |-> "region", fdi |-> "absent"]}}

InitLocated ==
    /\ pc = "probe"
    /\ version = ProbeOrder[1]
    /\ info = PakInfoDefault
    /\ entry = NoEntry
    /\ index = <<>>
    /\ pos = 0
    /\ key = FALSE
    /\ writer = NoWriter
    /\ sha1_ar = ArchiveLen
    /\ next = NoNext
    /\ res = NoLoad
    /\ \E c \in LocatedCases :
          /\ file = c.file
          /\ orig = [mode |-> "located", raw |-> c.raw, version |-> c.version]

SpecLocated == InitLocated /\ [][NextLoad]_vars

\* the offset o addresses a complete compact entry of the blob
AddressesEntry(blob, o, v) ==
    /\ o < Len(blob)
    /\ decode_entry(Ok(ArchiveReader(SubSeq(blob, o + 1, Len(blob)), 0)), v).st = "ok"

\* C26: the read of a V2 index fails with InvalidData if a location of
\* path_hash_index is an offset that addresses no complete compact entry of
\* encoded_pak_entries, the offset equal to the length of the blob included
C26_OffsetOutOfBounds ==
    (/\ pc \in {"loaded", "failed"}
     /\ LocationGet(orig.raw).kind = "Offset"
     /\ ~AddressesEntry(FixBlob(orig.version), LocationGet(orig.raw).at, orig.version)) =>
        pc = "failed" /\ res.st = "InvalidData"

\* a location of a V2 index resolves: an offset has its decoded entry, an
\* index lies inside files
Resolves(idx, x) ==
    LET loc == LocationGet(x)
    IN /\ loc.kind = "Offset" => MapHas(idx.decoded_pak_entries, ToLe(loc.at, 4))
       /\ loc.kind = "Index" => loc.at < Len(idx.files)

\* C28: after a read of a V2 index that succeeded every location of
\* path_hash_index resolves, so that entries() and hashed_entries() find an
\* entry for each
C28_LocationsResolve ==
    pc = "loaded" =>
        \A i \in 1..Len(index.path_hash_index) : Resolves(index, index.path_hash_index[i].v)

(***************************************************************************)
(* PakIndexV2::add called on an index of its own: index is the PakIndexV2, *)
(* orig keeps the calls made, each with the blob as it was before.         *)
(***************************************************************************)

\* three entries that the compact form takes, the second with an offset that
\* needs 8 bytes, and one that it does not take
AddEntries ==
    {[PakEntryDefault EXCEPT !.offset = 3, !.size = 3, !.uncompressed_size = 3],
     [PakEntryDefault EXCEPT !.offset = Huge, !.size = 3, !.uncompressed_size = 3],
     [PakEntryDefault EXCEPT !.offset = 7, !.size = 5, !.uncompressed_size = 5],
     [PakEntryDefault EXCEPT !.compression_method_index = 64, !.size = 3,
                             !.uncompressed_size = 5]}

\* PakIndexV2::default() with the two public flags as the caller set them
InitAdd ==
    /\ pc = "adding"
    /\ version \in {PathHashIndex, Fnv64BugFix}
    /\ info = PakInfoNew(version)
    /\ entry = NoEntry
    /\ \E h, d \in BOOLEAN :
          index = [PakIndexV2Default EXCEPT !.has_path_hash_index = h,
                                            !.has_full_directory_index = d]
    /\ pos = 0
    /\ key = FALSE
    /\ writer = NoWriter
    /\ sha1_ar = ArchiveLen
    /\ next = NoNext
    /\ file = <<>>
    /\ res = NoRes
    /\ orig = [mode |-> "v2add", version |-> version, calls |-> <<>>]

\* PakIndexV2::add
IndexAdd ==
    /\ pc = "adding"
    /\ Len(orig.calls) < MaxFiles
    /\ \E name \in BuildNames :
       \E e \in AddEntries :
       \E r \in {V2Add(index, name, e, version)} :
          /\ index' = r.self
          /\ entry' = e
          /\ res' = [op |-> "v2add", st |-> r.st, loc |-> LocationGet(r.loc)]
          /\ orig' = [orig EXCEPT !.calls =
                         Append(@, [name |-> name, entry |-> e, st |-> r.st,
                                    loc |-> LocationGet(r.loc),
                                    blob |-> index.encoded_pak_entries])]
    /\ UNCHANGED <<pc, version, info, builderVars, loaderVars, file>>

NextAdd == IndexAdd

SpecAdd == InitAdd /\ [][NextAdd]_vars

\* the compact encoding of an entry: accepted or not, and its bytes
Compact(e, v) ==
    Let(encode_entry(Ok(ArchiveWriter(<<>>)), e, v), LAMBDA r :
        [accepted |-> r.st = "ok" /\ r.v, bytes |-> IF r.st = "ok" THEN r.ar.bytes ELSE <<>>])

\* the encodings of the first n calls that were compactly encoded, in order
RECURSIVE Encodings(_, _, _)
Encodings(calls, n, v) ==
    IF n = 0 THEN <<>>
    ELSE Encodings(calls, n - 1, v)
            \o (IF Compact(calls[n].entry, v).accepted
                THEN Compact(calls[n].entry, v).bytes ELSE <<>>)

\* the blob as call i left it
BlobAfter(i) ==
    IF i < Len(orig.calls) THEN orig.calls[i + 1].blob ELSE index.encoded_pak_entries

\* C24: after any calls of add, encoded_pak_entries is the encodings of the
\* compactly encoded entries one after another; such an entry is located at
\* Offset(b), b the length of the blob before its add, and its encoding lies
\* at b; an entry that is not encoded is the last of files after its add, at
\* Index(files.len() - 1), and leaves the blob as it was
C24_BlobIsConcatenation ==
    orig.mode = "v2add" =>
        /\ index.encoded_pak_entries = Encodings(orig.calls, Len(orig.calls), version)
        /\ \A i \in 1..Len(orig.calls) :
              LET c == orig.calls[i]
                  enc == Compact(c.entry, version)
                  b == Len(c.blob)
                  k == Cardinality({j \in 1..i :
                                       ~Compact(orig.calls[j].entry, version).accepted})
              IN IF enc.accepted
                 THEN /\ c.loc = [kind |-> "Offset", at |-> b]
                      /\ SubSeq(index.encoded_pak_entries, b + 1, b + Len(enc.bytes))
                            = enc.bytes
                 ELSE /\ c.loc = [kind |-> "Index", at |-> k - 1]
                      /\ index.files[k] = c.entry
                      /\ BlobAfter(i) = c.blob

\* C29: an add that returns an error leaves the index as it was before the
\* call: the blob, files, the decoded entries and both maps, path_hash_index
\* still giving the earlier location for the hash that collided
C29_FailedAddChangesNothing ==
    [][(res'.op = "v2add" /\ res'.st # "ok") => index' = index]_vars

\* C27: with a key, every write_all of an AssetWriter returns, whatever the
\* length of the buffer and whatever was written before, and leaves fewer
\* than a block of bytes pending
C27_CipherWriteReturns ==
    [][(key /\ res'.op = "write_all") =>
          /\ res'.st = "ok"
          /\ writer'.cipher.pending < BLOCK]_vars

\* C30: ser_de_len and ser_de on a writer leave a PakInfo and a PakEntry of
\* any version equal to what they were, and the bytes written after an
\* earlier encoding are those that the value as given encodes to
C30_EncodingKeepsValue ==
    (orig.mode \in {"info", "entry"} /\ pc \in {"measured", "encoded"}) =>
        /\ orig.mode = "info" => info = orig.value
        /\ orig.mode = "entry" => entry = orig.value
        /\ pc = "encoded" => file \in BytesOf(orig.mode, orig.value, version)

====
